---- MODULE Spec2Model ----
(***************************************************************************)
(* Model of the trailer acquisition pipeline of TMDBintros:                *)
(*   - TMDBUpcomingTrailerDownloader.download_upcoming_trailers            *)
(*     (src/tmdb_upcoming.py), the staging-area orchestrator;              *)
(*   - TMDBTrailerDownloader.scan_existing_movies / process_movie /        *)
(*     process_existing_movies (src/tmdb_trailer_downloader.py), the       *)
(*     primary-library path;                                               *)
(*   - TMDBUpcomingTrailerDownloader.get_filtered_upcoming_movies, the     *)
(*     reconciliation of catalog discovery with the tracker's wanted list, *)
(*     under its own specification ReconcileSpec.                          *)
(* File and folder names are sequences of one-character strings so that    *)
(* formatting, sanitising and parsing are computed, not assumed.           *)
(***************************************************************************)
EXTENDS Integers, Sequences, FiniteSets, TLC

\* ------------------------------------------------------------------ bounds
\* invocations of an entry point in one behaviour
MaxRuns == 2
\* length of the candidate list (UPCOMING_MAX_MOVIES)
MaxMovies == 3
\* UPCOMING_MAX_TRAILERS_PER_MOVIE
max_trailers_per_movie == 2
\* failures the environment injects in one behaviour (failed downloads,
\* failed catalog calls, filesystem errors)
MaxFaults == 2
\* length of the tracker's wanted list
MaxWanted == 2
\* pages the catalog can answer for one discovery
MaxPages == 6
\* entries of the staging path
MaxStaged == 3
\* directory events one monitor process receives
MaxEvents == 4

\* --------------------------------------------------------- string helpers
Unknown == <<"U", "n", "k", "n", "o", "w", "n">>

Take(s, n) == SubSeq(s, 1, IF Len(s) < n THEN Len(s) ELSE n)

\* year = release_date[:4] if release_date else 'Unknown'
YearOf(release_date) == IF release_date = <<>> THEN Unknown ELSE Take(release_date, 4)

\* f"{title} ({year})"
FolderName(title, year) == title \o <<" ", "(">> \o year \o <<")">>

IsSpace(c) == c \in {" ", "\t"}
IsDigit(c) == c \in {"0", "1", "2", "3", "4", "5", "6", "7", "8", "9"}

DigitValue(c) ==
  CASE c = "0" -> 0 [] c = "1" -> 1 [] c = "2" -> 2 [] c = "3" -> 3 [] c = "4" -> 4
    [] c = "5" -> 5 [] c = "6" -> 6 [] c = "7" -> 7 [] c = "8" -> 8 [] c = "9" -> 9

\* int(digits)
RECURSIVE ToInt(_)
ToInt(ds) ==
  IF ds = <<>> THEN 0
  ELSE 10 * ToInt(SubSeq(ds, 1, Len(ds) - 1)) + DigitValue(ds[Len(ds)])

\* str.strip()
RECURSIVE LStrip(_)
LStrip(s) == IF s # <<>> /\ IsSpace(s[1]) THEN LStrip(Tail(s)) ELSE s
RECURSIVE RStrip(_)
RStrip(s) ==
  IF s # <<>> /\ IsSpace(s[Len(s)]) THEN RStrip(SubSeq(s, 1, Len(s) - 1)) ELSE s
Strip(s) == RStrip(LStrip(s))

\* re.sub(r'[<>:"/\\|?*]', '_', filename)
IsInvalidChar(c) == c \in {"<", ">", ":", "\"", "/", "\\", "|", "?", "*"}
ReplaceInvalid(s) == [n \in 1..Len(s) |-> IF IsInvalidChar(s[n]) THEN "_" ELSE s[n]]

\* re.sub(r'\s+', ' ', filename)
RECURSIVE CollapseSpaces(_)
CollapseSpaces(s) ==
  IF s = <<>> THEN <<>>
  ELSE IF IsSpace(s[1])
       THEN <<" ">> \o CollapseSpaces(LStrip(s))
       ELSE <<s[1]>> \o CollapseSpaces(Tail(s))

\* sanitize_filename
SanitizeFilename(s) == Strip(CollapseSpaces(ReplaceInvalid(s)))

\* number of whitespace characters of s from position p on
RECURSIVE SpacesFrom(_, _)
SpacesFrom(s, p) == IF p <= Len(s) /\ IsSpace(s[p]) THEN 1 + SpacesFrom(s, p + 1) ELSE 0

\* where r'\s*\((\d{4})\).*$' finds the parenthesis after a first group of g
\* characters
YearAt(s, g) == g + SpacesFrom(s, g + 1) + 1

\* variant: the year group is not closed by a parenthesis
MatchesAfterOpenYear(s, g) ==
  LET p == YearAt(s, g) IN
  /\ p + 4 <= Len(s)
  /\ s[p] = "("
  /\ \A d \in 1..4 : IsDigit(s[p + d])

\* whether r'\s*\((\d{4})\).*$' matches s after a first group of g characters
MatchesAfter(s, g) ==
  LET p == YearAt(s, g) IN
  /\ p + 5 <= Len(s)
  /\ s[p] = "("
  /\ \A d \in 1..4 : IsDigit(s[p + d])
  /\ s[p + 5] = ")"

NoMatch == [ok |-> FALSE, title |-> <<>>, year |-> 0]

\* re.match(r'^(.+?)\s*\((\d{4})\).*$', name): the first group is the shortest
\* one; title = group(1).strip(), year = int(group(2))
ParseFolderName(name) ==
  LET gs == {g \in 1..Len(name) : MatchesAfter(name, g)} IN
  IF gs = {} THEN NoMatch
  ELSE LET g == CHOOSE x \in gs : \A y \in gs : x <= y
           p == YearAt(name, g)
       IN [ok |-> TRUE,
           title |-> Strip(SubSeq(name, 1, g)),
           year |-> ToInt(SubSeq(name, p + 1, p + 4))]

\* ---------------------------------------------------------------- catalog
Video(key, type, site) == [key |-> key, type |-> type, site |-> site]

NoRadarr == [known |-> FALSE, hasFile |-> FALSE, path |-> <<>>]

RadarrFolder == <<"/", "r", "/", "R", "a">>
\* a path the tracker reports that is not on disk
RadarrGone == <<"/", "r", "/", "U", "p">>

\* The catalog and tracker answers the runs are exercised with: two movies
\* sharing title and year (one of them held by the tracker at a path that is
\* not on disk), one without a release date, one the tracker already holds,
\* one without any trailer that the tracker knows without a file.
Catalog ==
  [ m1 |-> [id |-> 1, title |-> <<"U", "p">>,
            release_date |-> <<"2", "0", "2", "7", "-", "0", "1", "-", "0", "5">>,
            popularity |-> 50,
            videos |-> << Video("k1", "Trailer", "YouTube"),
                          Video("k2", "Teaser", "YouTube"),
                          Video("k3", "Trailer", "YouTube"),
                          Video("k4", "Trailer", "Vimeo"),
                          Video("k5", "Trailer", "YouTube"),
                          Video("k6", "Trailer", "YouTube") >>,
            radarr |-> NoRadarr],
    m2 |-> [id |-> 2, title |-> <<"U", "p">>,
            release_date |-> <<"2", "0", "2", "7", "-", "0", "9", "-", "0", "9">>,
            popularity |-> 30,
            videos |-> << Video("k7", "Trailer", "YouTube") >>,
            radarr |-> [known |-> TRUE, hasFile |-> TRUE, path |-> RadarrGone]],
    m3 |-> [id |-> 3, title |-> <<"I", "t">>,
            release_date |-> <<>>,
            popularity |-> 20,
            videos |-> << Video("k8", "Trailer", "YouTube") >>,
            radarr |-> NoRadarr],
    m4 |-> [id |-> 4, title |-> <<"R", "a">>,
            release_date |-> <<"2", "0", "2", "8", "-", "0", "2", "-", "0", "2">>,
            popularity |-> 10,
            videos |-> << Video("k9", "Trailer", "YouTube") >>,
            radarr |-> [known |-> TRUE, hasFile |-> TRUE, path |-> RadarrFolder]],
    m5 |-> [id |-> 5, title |-> <<"N", "o">>,
            release_date |-> <<"2", "0", "2", "8", "-", "0", "3", "-", "0", "3">>,
            popularity |-> 40,
            videos |-> << Video("k10", "Teaser", "YouTube"),
                          Video("k11", "Trailer", "Vimeo") >>,
            radarr |-> [known |-> TRUE, hasFile |-> FALSE, path |-> RadarrFolder]] ]

MovieKeys == DOMAIN Catalog

\* Folders of the primary library the scan is exercised with.
LibUp == <<"U", "p", " ", "(", "2", "0", "0", "9", ")">>
LibSe7en == <<"S", "e", "7", "e", "n", " ", "(", "1", "9", "9", "5", ")">>
LibWho == <<"W", "h", "o", " ", " ", "(", "2", "0", "0", "9", ")">>
LibNotes == <<"n", "o", "t", "e", "s">>
LibraryFolders == {LibUp, LibSe7en, LibWho, LibNotes}

\* What the catalog search answers as its first result, by query title.
SearchCatalog ==
  [ up    |-> [id |-> 11, query |-> <<"U", "p">>, title |-> <<"U", "p">>,
               release_date |-> <<"2", "0", "0", "9", "-", "0", "5", "-", "2", "9">>,
               videos |-> << Video("u1", "Trailer", "YouTube"),
                             Video("u2", "Trailer", "YouTube") >>],
    seven |-> [id |-> 12, query |-> <<"S", "e", "7", "e", "n">>,
               title |-> <<"S", "e", "v", "e", "n">>,
               release_date |-> <<"1", "9", "9", "5", "-", "0", "9", "-", "2", "2">>,
               videos |-> << Video("s1", "Clip", "YouTube"),
                             Video("s2", "Trailer", "YouTube") >>],
    who   |-> [id |-> 13, query |-> <<"W", "h", "o">>, title |-> <<"W", "h", "o", "?">>,
               release_date |-> <<>>,
               videos |-> << Video("w1", "Trailer", "YouTube") >>] ]

SearchKeys == DOMAIN SearchCatalog

\* movie_dir of process_movie:
\* remote_share_path / f"{sanitize(movie['title'])} ({release_date[:4] or 'Unknown'})"
MovieDirName(movie) ==
  FolderName(SanitizeFilename(movie.title), YearOf(movie.release_date))

LibraryNames == LibraryFolders \cup {MovieDirName(SearchCatalog[q]) : q \in SearchKeys}

\* ------------------------------------------------------------- filesystem
NoInfo == [trailers_count |-> 0, downloaded_at |-> 0]

\* dir: the movie folder; tdir: its trailers folder; media: the trailer files
\* (by slot); part: a file in the trailers folder that is no media file (a
\* partially written download, an .info.json side file); other:
\* a movie file; info: movie_info.json
AbsentDir ==
  [dir |-> FALSE, tdir |-> FALSE, media |-> {}, part |-> FALSE, other |-> FALSE,
   info |-> NoInfo]

StagingKey(m) == <<"staging", FolderName(Catalog[m].title, YearOf(Catalog[m].release_date))>>
RadarrKey(p) == <<"radarr", p>>

LibraryKey(name) == <<"library", name>>

DirKeys == {StagingKey(m) : m \in MovieKeys}
           \cup {RadarrKey(RadarrFolder), RadarrKey(RadarrGone)}
           \cup {LibraryKey(n) : n \in LibraryNames}

VARIABLES
  prog,             \* which entry point this behaviour runs
  disk,             \* movie folders of the staging area and of the tracker
  staging,          \* the staging root and its README.md
  run,              \* number of invocations started so far
  pc,               \* position inside the running invocation
  upcoming_movies,  \* candidate list of the running invocation
  radarr_ok,        \* whether the tracker answers during this invocation
  i,                \* 1-based index of the candidate being handled
  stats,            \* the counters
  radarr_path,      \* result of should_download_to_radarr_folder
  target_path,      \* key of the movie folder whose trailers/ is the target
  trailers,         \* trailer list fetched for the current target
  video_url,        \* key of the video handed to download_trailer, or None
  j,                \* number of trailer slots already attempted
  success_count,    \* successful downloads of the current target
  ret,              \* value returned to the caller
  outcome,          \* per candidate: which counter it was added to
  made,             \* per candidate: directories its mkdir created
  fetched,          \* per candidate: trailer-list fetches issued
  tries,            \* per candidate: download attempts issued
  wins,             \* per directory: successful downloads of its last acquisition
  disk0,            \* disk when the running invocation started
  prev,             \* summary of the previous invocation
  discovered,       \* what get_filtered_upcoming_movies answers
  faults,           \* failures injected so far
  skip_existing,    \* argument of process_existing_movies
  existing_movies,  \* result of scan_existing_movies
  movies_to_process,\* the scanned movies that are not skipped
  movie,            \* process_movie: the search result
  handled,          \* folders process_movie was called for in this invocation
  acquired,         \* folders for which process_movie returned True
  radarr_service,   \* whether a tracker service is configured
  integration_mode, \* radarr_config.integration_mode
  all_movies,       \* what the discovery pages answered, in order
  wanted_movies,    \* what get_wanted_movies answers (tmdbId of each record)
  filtered,         \* what get_filtered_upcoming_movies returned
  warned,           \* whether it logged a warning
  franchise_only,   \* config.franchise_only
  original_only,    \* config.original_only
  page_answers,     \* what /discover/movie answers, page by page
  requested,        \* number of discovery pages requested
  accepted,         \* movies _passes_all_filters returned True for
  rejected,         \* movies _passes_all_filters returned False for
  candidates,       \* what get_upcoming_movies returned
  upcoming_exists,  \* whether the staging path exists when a tool is called
  staged,           \* the entries of the staging path, in iterdir order
  days_old,         \* argument of cleanup_old_upcoming
  cleanup_count,    \* the count cleanup_old_upcoming logs
  cleanup_ret,      \* what cleanup_old_upcoming returned
  listing,          \* what list_upcoming_movies returned
  folder_name,      \* the directory name handed to the parsers
  parse_result,     \* what each component made of folder_name
  processed_movies, \* MovieFolderHandler.processed_movies
  with_trailers,    \* watched folders whose trailers/ holds a file
  events,           \* directory events dispatched so far
  calls,            \* calls of process_single_movie so far
  last_event,       \* what check_new_movie did with the latest event
  filter_config,    \* the filters of UpcomingConfig that are configured
  film,             \* the movie handed to _passes_all_filters
  verdict,          \* what each group of filters answered for it
  network,          \* config.network: enabled, auto_mount and the share type
  mounted,          \* whether the share is mounted at the mount point
  net_run,          \* the entry point that ran, what it returned, and whether
                    \* the share was mounted when it was called
  scheduler         \* TMDBTrailerScheduler inside start_scheduler

upvars == << upcoming_movies, radarr_ok, stats, radarr_path, ret, discovered,
             staging >>

libvars == << skip_existing, existing_movies, movies_to_process, movie, handled,
              acquired >>

\* the state of a single call of _passes_all_filters
filtervars == << filter_config, film, verdict >>

\* the state of the network share and of the entry point that uses it
netvars == << network, mounted, net_run >>

morevars == << filtervars, netvars, scheduler >>

\* the state of discovery, of the sweeper, of the monitor and of the parsers
toolvars == << franchise_only, original_only, page_answers, requested,
               accepted, rejected, candidates, upcoming_exists, staged,
               days_old, cleanup_count, cleanup_ret, listing, folder_name,
               parse_result, processed_movies, with_trailers, events, calls,
               last_event, morevars >>

fvars == << radarr_service, integration_mode, all_movies, wanted_movies,
           filtered, warned, toolvars >>

vars == << prog, disk, staging, run, pc, upcoming_movies, radarr_ok, i, stats,
           radarr_path, target_path, trailers, video_url, j, success_count, ret,
           outcome,
           made, fetched, tries, wins, disk0, prev, discovered, faults,
           skip_existing, existing_movies, movies_to_process, movie, handled,
           acquired, radarr_service, integration_mode, all_movies,
           wanted_movies, filtered, warned, toolvars >>

\* ------------------------------------------------------- pure operations
None == <<>>

\* variant: done only once the configured number of trailers is present
HasFullSet(e) == e.dir /\ e.tdir /\ Cardinality(e.media) >= max_trailers_per_movie

\* variant: done once movie_info.json exists
HasTrailersByRecord(e) == e.dir /\ e.info.trailers_count > 0

\* target_path.exists() and any(target_path.iterdir())
HasTrailers(e) == e.dir /\ e.tdir /\ (e.media # {} \/ e.part)

\* a movie folder with nothing in it
IsEmptyDir(e) == ~e.tdir /\ ~e.other /\ e.info = NoInfo

\* variant: the tracker's folder is taken whether or not it holds a file
RadarrPathForAnyEntry(m, tracker_up, d) ==
  LET r == Catalog[m].radarr IN
  IF tracker_up /\ r.known /\ r.path # <<>> /\ d[RadarrKey(r.path)].dir
  THEN r.path ELSE None

\* should_download_to_radarr_folder: the tracker's folder, or None
RadarrPathFor(m, tracker_up, d) ==
  LET r == Catalog[m].radarr IN
  IF tracker_up /\ r.known /\ r.hasFile /\ r.path # <<>> /\ d[RadarrKey(r.path)].dir
  THEN r.path ELSE None

\* target_path.parent, as a key of the disk
TargetFor(m, rpath) == IF rpath # None THEN RadarrKey(rpath) ELSE StagingKey(m)

\* variant: the site of a video is not looked at
MovieTrailersAnySite(videos) == SelectSeq(videos, LAMBDA v : v.type = "Trailer")

\* get_movie_trailers: the YouTube trailers, in catalog order
IsYouTubeTrailer(v) == v.type = "Trailer" /\ v.site = "YouTube"
MovieTrailers(videos) == SelectSeq(videos, IsYouTubeTrailer)

\* variant: the per-movie cap is not applied
SlotsUncapped(ts) == ts

\* trailers[:max_trailers]
Slots(ts) == Take(ts, max_trailers_per_movie)

\* target_path.mkdir(parents=True, exist_ok=True)
MkdirTrailers(e) == [e EXCEPT !.dir = TRUE, !.tdir = TRUE]

\* the clean-up of a target with no successful download: rmdir of the
\* trailers folder, then of the movie folder unless it is the tracker's;
\* rmdir raises on a non-empty directory and the rest is skipped
Rollback(e, is_radarr) ==
  LET raised == e.tdir /\ (e.media # {} \/ e.part)
      a == IF e.tdir /\ ~raised THEN [e EXCEPT !.tdir = FALSE] ELSE e
  IN IF raised THEN e
     ELSE IF ~is_radarr /\ a.dir /\ IsEmptyDir(a) THEN [a EXCEPT !.dir = FALSE]
     ELSE a

\* movie_info.json of a completed staging target
MovieInfo(count, now) == [trailers_count |-> count, downloaded_at |-> now]

\* variant: the record is written into the tracker's folder too
WriteRecordAlways(e, count, is_radarr, now) == [e EXCEPT !.info = MovieInfo(count, now)]

\* if success_count > 0 ... if not radarr_path: write movie_info.json
WriteRecord(e, count, is_radarr, now) ==
  IF is_radarr THEN e ELSE [e EXCEPT !.info = MovieInfo(count, now)]

Bump(st, field) == [st EXCEPT ![field] = @ + 1]

\* line 484: stats['skipped'] += 1
CountSkipped(st) == Bump(st, "skipped")
\* variant: `continue` without counting
CountNothing(st) == st
\* line 497: stats['errors'] += 1 before `continue`
CountNoTrailers(st) == Bump(st, "errors")
\* line 532: stats['processed'] += 1
CountProcessed(st) == Bump(st, "processed")
\* lines 540 and 544: stats['errors'] += 1, once on either path
CountFailed(st) == Bump(st, "errors")

ZeroStats == [total |-> 0, processed |-> 0, skipped |-> 0, errors |-> 0]

NoRet == [total |-> -1, processed |-> -1, skipped |-> -1, errors |-> -1]

\* for i, trailer in enumerate(trailers[:3])
LibraryTrailerLimit == 3

\* DownloadConfig.retry_attempts and DownloadConfig.max_concurrent_downloads:
\* set by the configuration, read by no download path
retry_attempts == 3
max_concurrent_downloads == 3

\* return success_count > 0
ProcessMovieResult(count) == count > 0

\* sequences of movies, at most n long
RECURSIVE ListsUpTo(_)
ListsUpTo(n) ==
  IF n = 0 THEN {<<>>}
  ELSE LET shorter == ListsUpTo(n - 1) IN
       shorter \cup {Append(l, m) : l \in {x \in shorter : Len(x) = n - 1},
                                   m \in MovieKeys}

\* all_movies.sort(key=popularity, reverse=True)[:max_movies_per_run]
SortedByPopularity(l) ==
  \A a, b \in 1..Len(l) : a < b => Catalog[l[a]].popularity > Catalog[l[b]].popularity

CandidateLists == {l \in ListsUpTo(MaxMovies) : SortedByPopularity(l)}

\* a folder holding a movie file and no trailers
MovieFolder == [AbsentDir EXCEPT !.dir = TRUE, !.other = TRUE]

\* a fresh installation: the tracker's folder exists, the library holds the
\* folders `present`, the staging area is empty
DiskWith(present) ==
  [k \in DirKeys |->
     IF k = RadarrKey(RadarrFolder) \/ (k[1] = "library" /\ k[2] \in present)
     THEN MovieFolder ELSE AbsentDir]

InitDisk == DiskWith({})

\* the order in which iterdir() lists the library
LibraryOrder ==
  << LibUp, LibSe7en, LibWho, LibNotes,
     MovieDirName(SearchCatalog.seven), MovieDirName(SearchCatalog.who) >>

\* scan_existing_movies: one entry per directory whose name parses
ScanEntry(name, d) ==
  LET parsed == ParseFolderName(name) IN
  [title |-> parsed.title, year |-> parsed.year, folder |-> name,
   has_trailers |-> HasTrailers(d[LibraryKey(name)])]

IsMovieFolder(name, d) == d[LibraryKey(name)].dir /\ ParseFolderName(name).ok

RECURSIVE ScanFrom(_, _)
ScanFrom(names, d) ==
  IF names = <<>> THEN <<>>
  ELSE (IF IsMovieFolder(names[1], d) THEN <<ScanEntry(names[1], d)>> ELSE <<>>)
       \o ScanFrom(Tail(names), d)

ScanExistingMovies(d) == ScanFrom(LibraryOrder, d)

\* if skip_existing and movie['has_trailers']: continue
IsSkipped(entry, skip) == skip /\ entry.has_trailers

RECURSIVE ToProcess(_, _)
ToProcess(entries, skip) ==
  IF entries = <<>> THEN <<>>
  ELSE (IF IsSkipped(entries[1], skip) THEN <<>> ELSE <<entries[1]>>)
       \o ToProcess(Tail(entries), skip)

\* search_movie: data['results'][0] for the query, or None
SearchMovie(title) ==
  IF \E q \in SearchKeys : SearchCatalog[q].query = title
  THEN CHOOSE q \in SearchKeys : SearchCatalog[q].query = title
  ELSE "none"

\* ------------------------------------------------------------------ Init
\* nothing has run yet
NotStarted ==
  /\ staging = [exists |-> FALSE, readme |-> FALSE]
  /\ run = 0
  /\ pc = "idle"
  /\ upcoming_movies = <<>>
  /\ i = 0
  /\ stats = ZeroStats
  /\ radarr_path = None
  /\ target_path = None
  /\ trailers = <<>>
  /\ video_url = "none"
  /\ j = 0
  /\ success_count = 0
  /\ ret = NoRet
  /\ outcome = <<>>
  /\ made = <<>>
  /\ fetched = <<>>
  /\ tries = <<>>
  /\ wins = [k \in DirKeys |-> 0]
  /\ disk0 = disk
  /\ prev = [done |-> FALSE, outcome |-> <<>>, disk |-> disk, acquired |-> {},
             faults |-> 0]
  /\ faults = 0
  /\ skip_existing = TRUE
  /\ existing_movies = <<>>
  /\ movies_to_process = <<>>
  /\ movie = "none"
  /\ handled = {}
  /\ acquired = {}
  /\ filtered = <<>>
  /\ warned = FALSE

\* discovery has not run, and no filter flag is configured
DiscoverIdle ==
  /\ franchise_only = FALSE
  /\ original_only = FALSE
  /\ page_answers = <<>>
  /\ requested = 0
  /\ accepted = {}
  /\ rejected = {}
  /\ candidates = <<>>

\* what _passes_all_filters has answered while it has not been called
NoVerdict ==
  [returned |-> FALSE, quality |-> FALSE, content |-> FALSE,
   production |-> FALSE, advanced |-> FALSE, all |-> FALSE]

\* no single movie is being filtered, and none of the filters that no
\* predicate acts on is configured
FilterIdle ==
  /\ filter_config = {}
  /\ film = [id |-> 0]
  /\ verdict = NoVerdict

\* no entry point of EnhancedTMDBTrailerDownloader has run; no share is
\* configured
NoRun == [entry |-> "none", returned |-> FALSE, value |-> FALSE,
          was_mounted |-> FALSE]

NetIdle ==
  /\ network = [enabled |-> FALSE, auto_mount |-> FALSE, type |-> "smb"]
  /\ mounted = FALSE
  /\ net_run = NoRun

\* a scheduler on which start_scheduler has not been called. at: where
\* start_scheduler stands; interval: interval_minutes; until_due: what is
\* left until the job is due; scans: scans run so far, counted modulo
\* MaxScans + 1; last: what the latest scan did; last_scan: whether
\* self.last_scan is set; after_failure: the scan before the latest one
\* returned False or raised
SchedulerWith(interval) ==
  [at |-> "constructed", interval |-> interval, until_due |-> 0, scans |-> 0,
   last |-> "none", last_scan |-> FALSE, after_failure |-> FALSE]

SchedIdle == scheduler = SchedulerWith(1)

\* what a function that has not returned has returned
NotReturned == [returned |-> FALSE, none |-> TRUE, count |-> 0]

\* the sweeper has not run
SweepIdle ==
  /\ upcoming_exists = FALSE
  /\ staged = <<>>
  /\ days_old = 0
  /\ cleanup_count = 0
  /\ cleanup_ret = NotReturned
  /\ listing = <<>>

\* no directory name has been looked at
NamesIdle ==
  /\ folder_name = <<>>
  /\ parse_result = [scan |-> [ok |-> FALSE, title |-> <<>>, year |-> 0],
               monitor |-> [ok |-> FALSE, title |-> <<>>, year |-> 0],
               utility |-> FALSE]

\* no event has been dispatched
NoEvent == [name |-> <<>>, key |-> <<>>, outcome |-> "none", retry |-> FALSE]

\* the monitor has not started: MovieFolderHandler.__init__
MonitorIdle ==
  /\ processed_movies = {}
  /\ with_trailers = {}
  /\ events = 0
  /\ calls = 0
  /\ last_event = NoEvent

\* neither discovery nor a tool has run
ToolsIdle ==
  /\ DiscoverIdle
  /\ FilterIdle
  /\ NetIdle
  /\ SchedIdle
  /\ SweepIdle
  /\ NamesIdle
  /\ MonitorIdle

Init ==
  /\ prog \in {"upcoming", "library"}
  /\ IF prog = "upcoming"
     THEN /\ disk = InitDisk
          /\ discovered \in CandidateLists
          /\ radarr_ok \in BOOLEAN
     ELSE /\ disk \in {DiskWith(fs) : fs \in (SUBSET LibraryFolders) \ {{}}}
          /\ discovered = <<>>
          /\ radarr_ok = FALSE
  /\ radarr_service = radarr_ok
  /\ integration_mode = "upcoming"
  /\ all_movies = <<>>
  /\ wanted_movies = <<>>
  /\ NotStarted
  /\ ToolsIdle

\* the locals of one loop iteration, before the next candidate is examined
ResetLocals ==
  /\ radarr_path' = None
  /\ target_path' = None
  /\ trailers' = <<>>
  /\ video_url' = "none"
  /\ j' = 0
  /\ success_count' = 0

\* `continue`, or the end of the loop body
NextCandidate ==
  /\ i' = i + 1
  /\ pc' = "examine"
  /\ ResetLocals

\* ------------------------------------------- download_upcoming_trailers
\* lines 447-460: create_upcoming_structure, the candidate list, the counters
StartRun ==
  /\ prog = "upcoming"
  /\ pc \in {"idle", "returned", "aborted", "interrupted"}
  /\ run < MaxRuns
  /\ run' = run + 1
  /\ staging' = [exists |-> TRUE, readme |-> TRUE]
  /\ upcoming_movies' = discovered
  /\ prev' = [done |-> pc = "returned",
              outcome |-> IF pc = "returned" THEN outcome ELSE <<>>,
              disk |-> disk, acquired |-> {}, faults |-> faults]
  /\ disk0' = disk
  /\ outcome' = [n \in 1..Len(discovered) |-> "none"]
  /\ made' = [n \in 1..Len(discovered) |-> {}]
  /\ fetched' = [n \in 1..Len(discovered) |-> 0]
  /\ tries' = [n \in 1..Len(discovered) |-> 0]
  /\ ResetLocals
  /\ IF discovered = <<>>
     THEN /\ ret' = ZeroStats
          /\ stats' = ZeroStats
          /\ i' = 0
          /\ pc' = "returned"
     ELSE /\ ret' = NoRet
          /\ stats' = [ZeroStats EXCEPT !.total = Len(discovered)]
          /\ i' = 1
          /\ pc' = "examine"
  /\ UNCHANGED libvars
  /\ UNCHANGED fvars
  /\ UNCHANGED << prog, disk, radarr_ok, wins, discovered, faults >>

\* lines 462-485: resolve the target and test the idempotence condition
ExamineTarget ==
  /\ pc = "examine"
  /\ i <= Len(upcoming_movies)
  /\ LET m == upcoming_movies[i]
         rp == RadarrPathFor(m, radarr_ok, disk)
         t == TargetFor(m, rp)
     IN IF HasTrailers(disk[t])
        THEN /\ stats' = CountSkipped(stats)
             /\ outcome' = [outcome EXCEPT ![i] = "skipped"]
             /\ NextCandidate
        ELSE /\ radarr_path' = rp
             /\ target_path' = t
             /\ pc' = "mkdir"
             /\ UNCHANGED << stats, outcome, i, trailers, video_url, j, success_count >>
  /\ UNCHANGED libvars
  /\ UNCHANGED fvars
  /\ UNCHANGED << prog, disk, staging, run, upcoming_movies, radarr_ok, ret,
                  made, fetched, tries, wins, disk0, prev, discovered, faults >>

\* line 482 outside the try block: exists()/iterdir() raise PermissionError,
\* which leaves download_upcoming_trailers without a return value
ExamineRaises ==
  /\ pc = "examine"
  /\ i <= Len(upcoming_movies)
  /\ faults < MaxFaults
  /\ faults' = faults + 1
  /\ pc' = "aborted"
  /\ UNCHANGED libvars
  /\ UNCHANGED fvars
  /\ UNCHANGED << prog, disk, staging, run, upcoming_movies, radarr_ok, i, stats,
                  radarr_path, target_path, trailers, video_url, j, success_count, ret,
                  outcome, made, fetched, tries, wins, disk0, prev, discovered >>

\* line 489: target_path.mkdir(parents=True, exist_ok=True)
MakeTargetDir ==
  /\ pc = "mkdir"
  /\ LET e == disk[target_path] IN
     /\ disk' = [disk EXCEPT ![target_path] = MkdirTrailers(e)]
     /\ made' = [made EXCEPT ![i] = (IF e.dir THEN {} ELSE {"movie"})
                                      \cup (IF e.tdir THEN {} ELSE {"trailers"})]
  /\ wins' = [wins EXCEPT ![target_path] = 0]
  /\ pc' = "fetch"
  /\ UNCHANGED libvars
  /\ UNCHANGED fvars
  /\ UNCHANGED << prog, staging, run, upcoming_movies, radarr_ok, i, stats,
                  radarr_path, target_path, trailers, video_url, j, success_count, ret,
                  outcome, fetched, tries, disk0, prev, discovered, faults >>

\* line 489 raising (permission, read-only share): lines 542-544
MakeTargetDirRaises ==
  /\ pc = "mkdir"
  /\ faults < MaxFaults
  /\ faults' = faults + 1
  /\ stats' = CountFailed(stats)
  /\ outcome' = [outcome EXCEPT ![i] = "error"]
  /\ NextCandidate
  /\ UNCHANGED libvars
  /\ UNCHANGED fvars
  /\ UNCHANGED << prog, disk, staging, run, upcoming_movies, radarr_ok, ret,
                  made, fetched, tries, wins, disk0, prev, discovered >>

\* lines 492-498: the trailer list; an empty list is counted and skipped
FetchTrailers ==
  /\ pc = "fetch"
  /\ \E ok \in BOOLEAN :
       /\ ~ok => faults < MaxFaults
       /\ faults' = IF ok THEN faults ELSE faults + 1
       /\ LET got == IF ok THEN MovieTrailers(Catalog[upcoming_movies[i]].videos)
                      ELSE <<>>
          IN IF got = <<>>
             THEN /\ stats' = CountNoTrailers(stats)
                  /\ outcome' = [outcome EXCEPT ![i] = "error"]
                  /\ NextCandidate
             ELSE /\ trailers' = got
                  /\ j' = 0
                  /\ success_count' = 0
                  /\ pc' = "download"
                  /\ UNCHANGED << stats, outcome, i, radarr_path, target_path,
                                  video_url >>
  /\ fetched' = [fetched EXCEPT ![i] = @ + 1]
  /\ UNCHANGED libvars
  /\ UNCHANGED fvars
  /\ UNCHANGED << prog, disk, staging, run, upcoming_movies, radarr_ok, ret,
                  made, tries, wins, disk0, prev, discovered >>

\* lines 503-509: the next slot of trailers[:max_trailers]; download_trailer
\* starts yt-dlp on its video
StartDownload ==
  /\ pc = "download"
  /\ j < Len(Slots(trailers))
  /\ video_url' = Slots(trailers)[j + 1].key
  /\ tries' = [tries EXCEPT ![i] = @ + 1]
  /\ pc' = "downloading"
  /\ UNCHANGED libvars
  /\ UNCHANGED fvars
  /\ UNCHANGED << prog, disk, staging, run, upcoming_movies, radarr_ok, i, stats,
                  radarr_path, target_path, trailers, j, success_count, ret,
                  outcome, made, fetched, wins, disk0, prev, discovered, faults >>

\* What a yt-dlp that exits with an error leaves behind: nothing, or the
\* .info.json of --write-info-json and the .part file of the broken transfer,
\* which are no media files.
FailedDownload(e) == {e, [e EXCEPT !.part = TRUE]}

\* lines 509-513 with download_trailer lines 154-164: yt-dlp ended; a single
\* invocation decides the slot
DownloadSlot ==
  /\ pc = "downloading"
  /\ \E ok \in BOOLEAN :
       /\ ~ok => faults < MaxFaults
       /\ faults' = IF ok THEN faults ELSE faults + 1
       /\ success_count' = IF ok THEN success_count + 1 ELSE success_count
       /\ IF ok
          THEN disk' = [disk EXCEPT ![target_path].media = @ \cup {j + 1}]
          ELSE \E e \in FailedDownload(disk[target_path]) :
                 disk' = [disk EXCEPT ![target_path] = e]
       /\ wins' = IF ok THEN [wins EXCEPT ![target_path] = @ + 1] ELSE wins
  /\ j' = j + 1
  /\ pc' = "download"
  /\ UNCHANGED libvars
  /\ UNCHANGED fvars
  /\ UNCHANGED << prog, staging, run, upcoming_movies, radarr_ok, i, stats,
                  radarr_path, target_path, trailers, video_url, ret, outcome,
                  made, fetched, tries, disk0, prev, discovered >>

\* What the killed yt-dlp leaves behind: nothing, a partially written file,
\* or the finished file when it had just completed.
KilledDownload(e, slot) ==
  {e, [e EXCEPT !.part = TRUE], [e EXCEPT !.media = @ \cup {slot}]}

\* KeyboardInterrupt during download_upcoming_trailers: it is no Exception,
\* so line 542 lets it through to main (lines 691-693), which returns 1;
\* subprocess.run kills a yt-dlp that is running
Interrupt ==
  /\ pc \in {"examine", "mkdir", "fetch", "download", "downloading"}
  /\ faults < MaxFaults
  /\ faults' = faults + 1
  /\ IF pc = "downloading"
     THEN \E e \in KilledDownload(disk[target_path], j + 1) :
            disk' = [disk EXCEPT ![target_path] = e]
     ELSE disk' = disk
  /\ pc' = "interrupted"
  /\ UNCHANGED libvars
  /\ UNCHANGED fvars
  /\ UNCHANGED << prog, staging, run, upcoming_movies, radarr_ok, i, stats,
                  radarr_path, target_path, trailers, video_url, j,
                  success_count, ret, outcome, made, fetched, tries, wins, disk0,
                  prev, discovered >>

\* lines 515-544: the work record, or the clean-up
FinishTarget ==
  /\ pc = "download"
  /\ j = Len(Slots(trailers))
  /\ LET e == disk[target_path]
         is_radarr == radarr_path # None
     IN IF success_count > 0
        THEN /\ disk' = [disk EXCEPT ![target_path] =
                            WriteRecord(e, success_count, is_radarr, run)]
             /\ stats' = CountProcessed(stats)
             /\ outcome' = [outcome EXCEPT ![i] = "processed"]
        ELSE /\ disk' = [disk EXCEPT ![target_path] = Rollback(e, is_radarr)]
             /\ stats' = CountFailed(stats)
             /\ outcome' = [outcome EXCEPT ![i] = "error"]
  /\ NextCandidate
  /\ UNCHANGED libvars
  /\ UNCHANGED fvars
  /\ UNCHANGED << prog, staging, run, upcoming_movies, radarr_ok, ret, made,
                  fetched, tries, wins, disk0, prev, discovered, faults >>

\* lines 546-547
ReturnStats ==
  /\ pc = "examine"
  /\ i > Len(upcoming_movies)
  /\ ret' = stats
  /\ pc' = "returned"
  /\ UNCHANGED libvars
  /\ UNCHANGED fvars
  /\ UNCHANGED << prog, disk, staging, run, upcoming_movies, radarr_ok, i, stats,
                  radarr_path, target_path, trailers, video_url, j, success_count, outcome,
                  made, fetched, tries, wins, disk0, prev, discovered, faults >>

\* ---------------------------------------------- process_existing_movies
\* process_movie returns: the caller's loop goes to its next movie
NextMovie(result) ==
  /\ outcome' = [outcome EXCEPT ![i] = result]
  /\ i' = i + 1
  /\ pc' = "process"
  /\ movie' = "none"
  /\ ResetLocals

\* lines 267-271 with scan_existing_movies, lines 223-257
ScanExisting ==
  /\ prog = "library"
  /\ pc \in {"idle", "finished"}
  /\ run < MaxRuns
  /\ run' = run + 1
  /\ \E skip \in BOOLEAN : skip_existing' = skip
  /\ existing_movies' = ScanExistingMovies(disk)
  /\ prev' = [done |-> pc = "finished", outcome |-> outcome, disk |-> disk,
              acquired |-> acquired, faults |-> faults]
  /\ disk0' = disk
  /\ movies_to_process' = <<>>
  /\ handled' = {}
  /\ acquired' = {}
  /\ outcome' = <<>>
  /\ made' = <<>>
  /\ fetched' = <<>>
  /\ tries' = <<>>
  /\ movie' = "none"
  /\ i' = 0
  /\ ResetLocals
  /\ pc' = IF existing_movies' = <<>> THEN "finished" ELSE "scanned"
  /\ UNCHANGED fvars
  /\ UNCHANGED << prog, disk, wins, faults >>
  /\ UNCHANGED upvars

\* lines 273-284: drop the movies that already have trailers
SelectMovies ==
  /\ pc = "scanned"
  /\ LET todo == ToProcess(existing_movies, skip_existing) IN
     /\ movies_to_process' = todo
     /\ outcome' = [n \in 1..Len(todo) |-> "none"]
     /\ made' = [n \in 1..Len(todo) |-> {}]
     /\ fetched' = [n \in 1..Len(todo) |-> 0]
     /\ tries' = [n \in 1..Len(todo) |-> 0]
     /\ i' = IF todo = <<>> THEN 0 ELSE 1
     /\ pc' = IF todo = <<>> THEN "finished" ELSE "process"
  /\ UNCHANGED fvars
  /\ UNCHANGED << prog, disk, run, target_path, trailers, video_url, j, success_count,
                  wins, disk0, prev, faults, skip_existing, existing_movies,
                  movie, handled, acquired >>
  /\ UNCHANGED upvars

\* process_movie lines 178-183: the catalog search
SearchStep ==
  /\ pc = "process"
  /\ i <= Len(movies_to_process)
  /\ handled' = handled \cup {movies_to_process[i].folder}
  /\ \E ok \in BOOLEAN :
       /\ ~ok => faults < MaxFaults
       /\ faults' = IF ok THEN faults ELSE faults + 1
       /\ LET found == IF ok THEN SearchMovie(movies_to_process[i].title)
                        ELSE "none"
          IN IF found = "none"
             THEN NextMovie("false")
             ELSE /\ movie' = found
                  /\ pc' = "pm_fetch"
                  /\ UNCHANGED << outcome, i, target_path, trailers, video_url, j,
                                  success_count >>
  /\ UNCHANGED fvars
  /\ UNCHANGED << prog, disk, run, made, fetched, tries, wins, disk0, prev,
                  skip_existing, existing_movies, movies_to_process, acquired >>
  /\ UNCHANGED upvars

\* process_movie lines 186-189: the trailer list
TrailerListStep ==
  /\ pc = "pm_fetch"
  /\ fetched' = [fetched EXCEPT ![i] = @ + 1]
  /\ \E ok \in BOOLEAN :
       /\ ~ok => faults < MaxFaults
       /\ faults' = IF ok THEN faults ELSE faults + 1
       /\ LET got == IF ok THEN MovieTrailers(SearchCatalog[movie].videos)
                      ELSE <<>>
          IN IF got = <<>>
             THEN NextMovie("false")
             ELSE /\ trailers' = got
                  /\ pc' = "pm_mkdir"
                  /\ UNCHANGED << outcome, i, movie, target_path, video_url, j,
                                  success_count >>
  /\ UNCHANGED fvars
  /\ UNCHANGED << prog, disk, run, made, tries, wins, disk0, prev,
                  skip_existing, existing_movies, movies_to_process, handled,
                  acquired >>
  /\ UNCHANGED upvars

\* process_movie lines 192-200: the movie and trailers directories
MovieDirStep ==
  /\ pc = "pm_mkdir"
  /\ LET t == LibraryKey(MovieDirName(SearchCatalog[movie]))
         e == disk[t]
     IN /\ target_path' = t
        /\ disk' = [disk EXCEPT ![t] = MkdirTrailers(e)]
        /\ made' = [made EXCEPT ![i] = (IF e.dir THEN {} ELSE {"movie"})
                                         \cup (IF e.tdir THEN {} ELSE {"trailers"})]
        /\ wins' = [wins EXCEPT ![t] = 0]
  /\ j' = 0
  /\ success_count' = 0
  /\ pc' = "pm_download"
  /\ UNCHANGED fvars
  /\ UNCHANGED << prog, run, i, trailers, video_url, outcome, fetched, tries, disk0, prev,
                  faults, skip_existing, existing_movies, movies_to_process,
                  movie, handled, acquired >>
  /\ UNCHANGED upvars

\* process_movie lines 203-211: one of the first three trailers
TrailerStep ==
  /\ pc = "pm_download"
  /\ j < Len(Take(trailers, LibraryTrailerLimit))
  /\ \E ok \in BOOLEAN :
       /\ ~ok => faults < MaxFaults
       /\ faults' = IF ok THEN faults ELSE faults + 1
       /\ success_count' = IF ok THEN success_count + 1 ELSE success_count
       /\ IF ok
          THEN disk' = [disk EXCEPT ![target_path].media = @ \cup {j + 1}]
          ELSE \E e \in FailedDownload(disk[target_path]) :
                 disk' = [disk EXCEPT ![target_path] = e]
       /\ wins' = IF ok THEN [wins EXCEPT ![target_path] = @ + 1] ELSE wins
  /\ video_url' = Take(trailers, LibraryTrailerLimit)[j + 1].key
  /\ j' = j + 1
  /\ tries' = [tries EXCEPT ![i] = @ + 1]
  /\ UNCHANGED fvars
  /\ UNCHANGED << prog, run, pc, i, target_path, trailers, outcome, made,
                  fetched, disk0, prev, skip_existing, existing_movies,
                  movies_to_process, movie, handled, acquired >>
  /\ UNCHANGED upvars

\* process_movie lines 213-214 and the caller's lines 288-289
ProcessMovieReturns ==
  /\ pc = "pm_download"
  /\ j = Len(Take(trailers, LibraryTrailerLimit))
  /\ acquired' = IF ProcessMovieResult(success_count)
                 THEN acquired \cup {movies_to_process[i].folder}
                 ELSE acquired
  /\ NextMovie(IF ProcessMovieResult(success_count) THEN "true" ELSE "false")
  /\ UNCHANGED fvars
  /\ UNCHANGED << prog, disk, run, made, fetched, tries, wins, disk0, prev,
                  faults, skip_existing, existing_movies, movies_to_process,
                  handled >>
  /\ UNCHANGED upvars

\* line 291: the loop is over
FinishScan ==
  /\ pc = "process"
  /\ i > Len(movies_to_process)
  /\ pc' = "finished"
  /\ UNCHANGED fvars
  /\ UNCHANGED << prog, disk, run, i, target_path, trailers, video_url, j, success_count,
                  outcome, made, fetched, tries, wins, disk0, prev, faults >>
  /\ UNCHANGED libvars
  /\ UNCHANGED upvars

Next ==
  \/ ScanExisting
  \/ SelectMovies
  \/ SearchStep
  \/ TrailerListStep
  \/ MovieDirStep
  \/ TrailerStep
  \/ ProcessMovieReturns
  \/ FinishScan
  \/ StartRun
  \/ ExamineTarget
  \/ ExamineRaises
  \/ MakeTargetDir
  \/ MakeTargetDirRaises
  \/ FetchTrailers
  \/ StartDownload
  \/ DownloadSlot
  \/ Interrupt
  \/ FinishTarget
  \/ ReturnStats

Spec == Init /\ [][Next]_vars

\* ------------------------------------------- get_filtered_upcoming_movies
\* self.max_movies_per_run and self.days_ahead
max_movies_per_run == MaxMovies
days_ahead == 90
\* self.popularity_threshold
popularity_threshold == 10

\* Titles the filters are exercised with.
Titles ==
  [ up |-> <<"U", "p">>, up2 |-> <<"U", "p", " ", "2">>, it |-> <<"I", "t">>, us |-> <<"U", "s">>,
    rocky |-> <<"R", "o", "c", "k", "y", " ", "I", "I">>,
    hawaii |-> <<"H", "a", "w", "a", "i", "i">>,
    pi |-> <<"P", "i", " ", "I">>,
    sequel |-> <<"T", "h", "e", " ", "S", "e", "q", "u", "e", "l">>,
    apart |-> <<"A", "P", "A", "R", "T">>,
    dune |-> <<"D", "u", "n", "e", ":", " ", "O", "n", "e">>,
    empty |-> <<>> ]

\* A movie as the catalog answers it. release_in is the release date in days
\* from today (dated = FALSE: no release_date); title: the title.
Film(id, popularity, dated, release_in, collection, title) ==
  [id |-> id, popularity |-> popularity, dated |-> dated,
   release_in |-> release_in, belongs_to_collection |-> collection,
   title |-> title]

\* What /discover/movie can answer: two movies above the popularity
\* threshold and one below it.
DiscoverPool ==
  { Film(1, 50, TRUE, 10, FALSE, Titles.up),
    Film(2, 30, TRUE, 20, TRUE, Titles.up2),
    Film(3, 5, TRUE, 30, FALSE, Titles.it) }

\* What /movie/{id} answers beyond the discovered movies: 7 is released
\* inside the window, 8 after it; the request for 9 fails.
DetailsPool ==
  DiscoverPool \cup { Film(7, 40, TRUE, 15, FALSE, Titles.up),
                      Film(8, 40, TRUE, 200, FALSE, Titles.up) }

\* ids a wanted record of the tracker can carry
WantedIds == {2, 3, 7, 8, 9}

NoDetails == Film(0, 0, FALSE, 0, FALSE, <<>>)

\* _get_tmdb_movie_details: the movie, or None
MovieDetails(tmdb_id) ==
  IF \E m \in DetailsPool : m.id = tmdb_id
  THEN CHOOSE m \in DetailsPool : m.id = tmdb_id
  ELSE NoDetails

\* _is_upcoming_movie: today <= movie_date <= end_date, where today is
\* datetime.now() and movie_date the midnight of the release date, so a
\* movie released today is already past
IsUpcomingMovie(m) == m.dated /\ 0 < m.release_in /\ m.release_in <= days_ahead

\* variant: the title is compared as it is written
LowerIdentity(s) == s

\* str.lower() on the letters of the ASCII alphabet
Lower(s) ==
  LET upper == <<"A", "B", "C", "D", "E", "F", "G", "H", "I", "J", "K", "L", "M", "N", "O", "P", "Q", "R", "S", "T", "U", "V", "W", "X", "Y", "Z">>
      lower == <<"a", "b", "c", "d", "e", "f", "g", "h", "i", "j", "k", "l", "m", "n", "o", "p", "q", "r", "s", "t", "u", "v", "w", "x", "y", "z">>
  IN [k \in 1..Len(s) |->
        IF \E n \in 1..Len(upper) : upper[n] = s[k]
        THEN lower[CHOOSE n \in 1..Len(upper) : upper[n] = s[k]]
        ELSE s[k]]

\* movie.get('title', '')
TitleOf(m) == IF "title" \in DOMAIN m THEN m.title ELSE <<>>

\* `t in s` of two strings
Contains(s, t) ==
  \E k \in 0..(Len(s) - Len(t)) : SubSeq(s, k + 1, k + Len(t)) = t

\* the indicators of a sequel, line 251
Indicators == {<<"2">>, <<"i", "i">>, <<"s", "e", "q", "u", "e", "l">>, <<"p", "a", "r", "t">>, <<":">>}

\* the filters of UpcomingConfig no predicate acts on
FilterNames ==
  {"filter_studios", "exclude_studios", "filter_directors", "filter_actors",
   "filter_ratings", "exclude_ratings", "min_budget"}

\* _passes_quality_filters
PassesQualityFilters(m) == TRUE

\* _passes_content_filters: `pass` under the rating filters
PassesContentFilters(m) ==
  IF filter_config \cap {"filter_ratings", "exclude_ratings"} # {}
  THEN TRUE ELSE TRUE

\* variant: a studio filter rejects the movie whose studios are not known
ProductionFailsClosed(m) ==
  IF filter_config \cap {"filter_studios", "exclude_studios",
                         "filter_directors", "filter_actors"} = {}
  THEN TRUE
  ELSE filter_config \cap {"filter_studios", "exclude_studios"} = {}

\* _passes_production_filters: `pass` under the studio filters
PassesProductionFilters(m) ==
  IF filter_config \cap {"filter_studios", "exclude_studios",
                         "filter_directors", "filter_actors"} = {}
  THEN TRUE
  ELSE IF filter_config \cap {"filter_studios", "exclude_studios"} # {}
       THEN TRUE ELSE TRUE

\* _passes_advanced_filters: `pass` under min_budget, then the two title and
\* collection checks
PassesAdvancedFilters(m) ==
  /\ franchise_only => m.belongs_to_collection
  /\ original_only => ~\E t \in Indicators : Contains(Lower(TitleOf(m)), t)

\* variant: a movie without popularity passes the popularity check
PopularityOrThreshold(m) ==
  IF "popularity" \in DOMAIN m THEN m.popularity ELSE popularity_threshold

\* movie.get('popularity', 0)
PopularityOf(m) == IF "popularity" \in DOMAIN m THEN m.popularity ELSE 0

\* variant: the popularity check is missing
PassesWithoutPopularity(m) ==
  /\ PassesQualityFilters(m)
  /\ PassesContentFilters(m)
  /\ PassesProductionFilters(m)
  /\ PassesAdvancedFilters(m)

\* _passes_all_filters
PassesAllFilters(m) ==
  /\ PopularityOf(m) >= popularity_threshold
  /\ PassesQualityFilters(m)
  /\ PassesContentFilters(m)
  /\ PassesProductionFilters(m)
  /\ PassesAdvancedFilters(m)

\* tuple comparison of two sort keys
KeyLess(a, b) == a[1] < b[1] \/ (a[1] = b[1] /\ a[2] < b[2])

\* list.sort / sorted: a stable sort, by insertion of each element behind
\* the elements that are not greater
RECURSIVE InsertKeyed(_, _)
InsertKeyed(x, s) ==
  IF s = <<>> THEN <<x>>
  ELSE IF KeyLess(x.key, s[1].key) THEN <<x>> \o s
  ELSE <<s[1]>> \o InsertKeyed(x, Tail(s))

RECURSIVE SortKeyed(_)
SortKeyed(s) ==
  IF s = <<>> THEN <<>>
  ELSE InsertKeyed(s[Len(s)], SortKeyed(SubSeq(s, 1, Len(s) - 1)))

\* the sorted elements, without their keys
Items(keyed) == [n \in 1..Len(keyed) |-> keyed[n].item]

\* key=lambda x: x.get('popularity', 0), reverse=True
PopularityKey(m) == <<0, 0 - PopularityOf(m)>>

\* get_upcoming_movies: the answered pages filtered one by one, collected,
\* sorted by popularity and cut to max_movies_per_run
GetUpcomingMovies(results) ==
  LET passed == SelectSeq(results, PassesAllFilters)
      keyed == [n \in 1..Len(passed) |->
                  [key |-> PopularityKey(passed[n]), item |-> passed[n]]]
  IN Take(Items(SortKeyed(keyed)), max_movies_per_run)

\* _get_radarr_wanted_movies: the wanted entries that resolve to an upcoming
\* movie
RECURSIVE GetRadarrWantedMovies(_)
GetRadarrWantedMovies(wanted) ==
  IF wanted = <<>> THEN <<>>
  ELSE LET d == MovieDetails(wanted[1]) IN
       (IF d # NoDetails /\ IsUpcomingMovie(d) THEN <<d>> ELSE <<>>)
       \o GetRadarrWantedMovies(Tail(wanted))

\* the first occurrence of every id, in order
RECURSIVE DedupById(_, _)
DedupById(s, seen_ids) ==
  IF s = <<>> THEN <<>>
  ELSE IF s[1].id \in seen_ids THEN DedupById(Tail(s), seen_ids)
  ELSE <<s[1]>> \o DedupById(Tail(s), seen_ids \cup {s[1].id})

Answer(movies, warning) == [movies |-> movies, warning |-> warning]

\* variant: the definition of lines 256-288, which the class body replaces
GetFilteredFirstDefinition(service, mode, results, wanted) ==
  IF ~service \/ mode = "upcoming"
  THEN Answer(GetUpcomingMovies(results), FALSE)
  ELSE IF mode = "radarr_only"
  THEN Answer(GetRadarrWantedMovies(wanted), FALSE)
  ELSE IF mode = "hybrid"
  THEN Answer(Take(DedupById(GetUpcomingMovies(results)
                               \o GetRadarrWantedMovies(wanted), {}),
                   max_movies_per_run), FALSE)
  ELSE Answer(<<>>, FALSE)

\* radarr_tmdb_ids
TmdbIds(wanted) == {wanted[n] : n \in 1..Len(wanted)}

\* get_filtered_upcoming_movies (lines 384-422): the list it returns and
\* whether it logged the unknown-mode warning
GetFilteredUpcomingMovies(service, mode, results, wanted) ==
  LET upcoming == GetUpcomingMovies(results)
      in_radarr(m) == m.id \in TmdbIds(wanted)
      hybrid_key(m) == <<IF in_radarr(m) THEN 0 ELSE 1, 0 - m.popularity>>
      keyed == [n \in 1..Len(upcoming) |->
                  [key |-> hybrid_key(upcoming[n]), item |-> upcoming[n]]]
  IN IF ~service \/ mode = "upcoming"
     THEN Answer(upcoming, FALSE)
     ELSE IF mode = "radarr_only"
     THEN Answer(SelectSeq(upcoming, in_radarr), FALSE)
     ELSE IF mode = "hybrid"
     THEN Answer(Items(SortKeyed(keyed)), FALSE)
     ELSE Answer(upcoming, TRUE)

\* sequences over S, at most n long
RECURSIVE SeqsUpTo(_, _)
SeqsUpTo(S, n) ==
  IF n = 0 THEN {<<>>}
  ELSE LET shorter == SeqsUpTo(S, n - 1) IN
       shorter \cup {Append(l, x) : l \in {y \in shorter : Len(y) = n - 1}, x \in S}

IntegrationModes == {"upcoming", "radarr_only", "hybrid", "both"}

\* the inputs of one call: a configuration, what the discovery pages answer
\* (duplicates across pages included) and, in the two modes that request it,
\* the tracker's wanted list (empty also when the request fails)
ReconcileInit ==
  /\ prog = "reconcile"
  /\ disk = InitDisk
  /\ discovered = <<>>
  /\ radarr_ok = FALSE
  /\ radarr_service \in BOOLEAN
  /\ integration_mode \in IntegrationModes
  /\ all_movies \in SeqsUpTo(DiscoverPool, max_movies_per_run + 1)
  /\ wanted_movies \in IF radarr_service
                          /\ integration_mode \in {"radarr_only", "hybrid"}
                       THEN SeqsUpTo(WantedIds, MaxWanted)
                       ELSE {<<>>}
  /\ NotStarted
  /\ ToolsIdle

\* line 454: upcoming_movies = self.get_filtered_upcoming_movies()
GetFiltered ==
  /\ prog = "reconcile"
  /\ pc = "idle"
  /\ LET r == GetFilteredUpcomingMovies(radarr_service, integration_mode,
                                        all_movies, wanted_movies)
     IN /\ filtered' = r.movies
        /\ warned' = r.warning
  /\ pc' = "filtered"
  /\ UNCHANGED << radarr_service, integration_mode, all_movies, wanted_movies >>
  /\ UNCHANGED toolvars
  /\ UNCHANGED libvars
  /\ UNCHANGED upvars
  /\ UNCHANGED << prog, disk, run, i, target_path, trailers, video_url, j,
                  success_count, outcome, made, fetched, tries, wins, disk0,
                  prev, faults >>

ReconcileNext == GetFiltered

ReconcileSpec == ReconcileInit /\ [][ReconcileNext]_vars


\* ------------------------------------------------------ get_upcoming_movies
\* the default of the parameter pages
pages == 5

\* One answer of /discover/movie: the request failed, or a page of results.
PageFailed == [ok |-> FALSE, results |-> <<>>]
Page(results) == [ok |-> TRUE, results |-> results]

\* a popular movie without the popularity field cannot be told from an
\* unpopular one; this one belongs to a collection
FilmWithoutPopularity ==
  [id |-> 4, dated |-> TRUE, release_in |-> 40, belongs_to_collection |-> TRUE,
   title |-> Titles.us]

\* What one request can be answered with: a failure, an empty page, or one of
\* two pages that each hold an accepted and a rejected movie.
PagePool ==
  { PageFailed,
    Page(<<>>),
    Page(<< Film(1, 50, TRUE, 10, FALSE, Titles.up),
            Film(3, 5, TRUE, 30, TRUE, Titles.it) >>),
    Page(<< FilmWithoutPopularity, Film(2, 30, TRUE, 20, TRUE, Titles.up2) >>) }

\* the answer to the request for one page; behind the last page that holds
\* results the catalog answers empty pages
PageAnswer(answers, page) ==
  IF page <= Len(answers) THEN answers[page] ELSE Page(<<>>)

\* the loop of get_upcoming_movies: the pages it requests, as the list of
\* their results; a failed request and an empty page both leave the loop
RECURSIVE PagesRead(_, _)
PagesRead(answers, page) ==
  IF page > pages THEN <<>>
  ELSE LET a == PageAnswer(answers, page) IN
       IF ~a.ok THEN <<a>>
       ELSE IF a.results = <<>> THEN <<a>>
       ELSE <<a>> \o PagesRead(answers, page + 1)

\* the movies of the pages that were read, in order
RECURSIVE ResultsOf(_)
ResultsOf(read) ==
  IF read = <<>> THEN <<>> ELSE read[1].results \o ResultsOf(Tail(read))

\* the elements of a sequence
Range(s) == {s[n] : n \in 1..Len(s)}

\* one call of get_upcoming_movies under some filter flags
DiscoverInputs ==
  /\ franchise_only \in BOOLEAN
  /\ original_only \in BOOLEAN
  /\ page_answers \in SeqsUpTo(PagePool, MaxPages)
  /\ requested = 0
  /\ accepted = {}
  /\ rejected = {}
  /\ candidates = <<>>

\* get_upcoming_movies (lines 89-174)
GetUpcoming ==
  /\ prog = "discover"
  /\ pc = "idle"
  /\ LET read == PagesRead(page_answers, 1)
         results == ResultsOf(read)
     IN /\ requested' = Len(read)
        /\ accepted' = {m \in Range(results) : PassesAllFilters(m)}
        /\ rejected' = {m \in Range(results) : ~PassesAllFilters(m)}
        /\ candidates' = GetUpcomingMovies(results)
  /\ pc' = "discovered"
  /\ UNCHANGED << franchise_only, original_only, page_answers >>
  /\ UNCHANGED << upcoming_exists, staged, days_old, cleanup_count,
                  cleanup_ret, listing >>
  /\ UNCHANGED << folder_name, parse_result >>
  /\ UNCHANGED << processed_movies, with_trailers, events, calls, last_event >>
  /\ UNCHANGED << radarr_service, integration_mode, all_movies, wanted_movies,
                  filtered, warned >>
  /\ UNCHANGED libvars
  /\ UNCHANGED upvars
  /\ UNCHANGED morevars
  /\ UNCHANGED << prog, disk, run, i, target_path, trailers, video_url, j,
                  success_count, outcome, made, fetched, tries, wins, disk0,
                  prev, faults >>

\* ------------------------------------------------------ _passes_all_filters
\* a movie whose catalog answer carries no title
FilmWithoutTitle ==
  [id |-> 5, popularity |-> 50, dated |-> TRUE, release_in |-> 10,
   belongs_to_collection |-> FALSE]

\* the movies one call is exercised with
FilterPool ==
  {Film(1, p, TRUE, 10, c, Titles[t]) :
     p \in {5, 50}, c \in BOOLEAN, t \in DOMAIN Titles}
  \cup {FilmWithoutTitle}

\* one call of _passes_all_filters under some configuration
FilterInputs ==
  /\ franchise_only \in BOOLEAN
  /\ original_only \in BOOLEAN
  /\ filter_config \in SUBSET FilterNames
  /\ film \in FilterPool
  /\ verdict = NoVerdict
  /\ page_answers = <<>>
  /\ requested = 0
  /\ accepted = {}
  /\ rejected = {}
  /\ candidates = <<>>

\* _passes_all_filters (lines 180-203) with what each group answers
PassesAll ==
  /\ prog = "filter"
  /\ pc = "idle"
  /\ verdict' = [returned |-> TRUE,
                 quality |-> PassesQualityFilters(film),
                 content |-> PassesContentFilters(film),
                 production |-> PassesProductionFilters(film),
                 advanced |-> PassesAdvancedFilters(film),
                 all |-> PassesAllFilters(film)]
  /\ pc' = "answered"
  /\ UNCHANGED << filter_config, film >>
  /\ UNCHANGED netvars
  /\ UNCHANGED scheduler
  /\ UNCHANGED << franchise_only, original_only, page_answers, requested,
                  accepted, rejected, candidates >>
  /\ UNCHANGED << upcoming_exists, staged, days_old, cleanup_count,
                  cleanup_ret, listing >>
  /\ UNCHANGED << folder_name, parse_result >>
  /\ UNCHANGED << processed_movies, with_trailers, events, calls, last_event >>
  /\ UNCHANGED << radarr_service, integration_mode, all_movies, wanted_movies,
                  filtered, warned >>
  /\ UNCHANGED libvars
  /\ UNCHANGED upvars
  /\ UNCHANGED << prog, disk, run, i, target_path, trailers, video_url, j,
                  success_count, outcome, made, fetched, tries, wins, disk0,
                  prev, faults >>

\* ------------------------------------------- EnhancedTMDBTrailerDownloader
\* share types a configuration can name; "ftp" is none NetworkMounter knows
ShareTypes == {"smb", "nfs", "sshfs", "ftp"}

\* __init__, lines 28-30: a NetworkMounter exists under enabled and auto_mount
HasMounter(cfg) == cfg.enabled /\ cfg.auto_mount

\* NetworkMounter.mount: True at once on a share that is mounted already;
\* else the mount command of the type decides (command_ok), and a type that
\* is not supported fails
Mount(is_mounted, type, command_ok) ==
  IF is_mounted THEN [ok |-> TRUE, mounted |-> TRUE]
  ELSE IF type \in {"smb", "cifs", "nfs", "ssh", "sshfs"}
       THEN [ok |-> command_ok, mounted |-> command_ok]
       ELSE [ok |-> FALSE, mounted |-> FALSE]

\* NetworkMounter.unmount: umount of a mounted share, whoever mounted it;
\* the value says whether the share is mounted afterwards
Unmount(is_mounted, command_ok) ==
  IF ~is_mounted THEN FALSE ELSE ~command_ok

\* ensure_network_mounted, lines 32-41
EnsureNetworkMounted(cfg, is_mounted, command_ok) ==
  IF ~HasMounter(cfg) THEN [ok |-> TRUE, mounted |-> is_mounted]
  ELSE Mount(is_mounted, cfg.type, command_ok)

\* cleanup_network, lines 43-47: whether the share is mounted afterwards
CleanupNetwork(cfg, is_mounted, command_ok) ==
  IF HasMounter(cfg) /\ cfg.auto_mount
  THEN Unmount(is_mounted, command_ok)
  ELSE is_mounted

\* one call of an entry point on some configuration and state of the share
NetInputs ==
  /\ network \in [enabled : BOOLEAN, auto_mount : BOOLEAN, type : ShareTypes]
  /\ mounted \in BOOLEAN
  /\ net_run = NoRun

\* the frame of the two entry points
NetFrame ==
  /\ UNCHANGED network
  /\ UNCHANGED scheduler
  /\ UNCHANGED filtervars
  /\ UNCHANGED << franchise_only, original_only, page_answers, requested,
                  accepted, rejected, candidates >>
  /\ UNCHANGED << upcoming_exists, staged, days_old, cleanup_count,
                  cleanup_ret, listing >>
  /\ UNCHANGED << folder_name, parse_result >>
  /\ UNCHANGED << processed_movies, with_trailers, events, calls, last_event >>
  /\ UNCHANGED << radarr_service, integration_mode, all_movies, wanted_movies,
                  filtered, warned >>
  /\ UNCHANGED libvars
  /\ UNCHANGED upvars
  /\ UNCHANGED << prog, disk, run, i, target_path, trailers, video_url, j,
                  success_count, outcome, made, fetched, tries, wins, disk0,
                  prev, faults >>

\* run_scan_existing (lines 49-71): without the share it returns before the
\* try; else the finally clause runs cleanup_network on either return
RunScanExisting ==
  /\ prog = "network"
  /\ pc = "idle"
  /\ \E mount_ok, path_exists, umount_ok \in BOOLEAN :
       LET e == EnsureNetworkMounted(network, mounted, mount_ok) IN
       IF ~e.ok
       THEN /\ mounted' = e.mounted
            /\ net_run' = [entry |-> "scan", returned |-> TRUE, value |-> FALSE,
                           was_mounted |-> mounted]
       ELSE /\ mounted' = CleanupNetwork(network, e.mounted, umount_ok)
            /\ net_run' = [entry |-> "scan", returned |-> TRUE,
                           value |-> path_exists, was_mounted |-> mounted]
  /\ pc' = "ran"
  /\ NetFrame

\* run_download_movie (lines 73-89)
RunDownloadMovie ==
  /\ prog = "network"
  /\ pc = "idle"
  /\ \E mount_ok, umount_ok \in BOOLEAN :
       LET e == EnsureNetworkMounted(network, mounted, mount_ok) IN
       IF ~e.ok
       THEN /\ mounted' = e.mounted
            /\ net_run' = [entry |-> "download", returned |-> TRUE,
                           value |-> FALSE, was_mounted |-> mounted]
       ELSE /\ mounted' = CleanupNetwork(network, e.mounted, umount_ok)
            /\ net_run' = [entry |-> "download", returned |-> TRUE,
                           value |-> TRUE, was_mounted |-> mounted]
  /\ pc' = "ran"
  /\ NetFrame

\* ------------------------------------------------------ TMDBTrailerScheduler
MaxInterval == 3
MaxScans == 5

\* run_scan_existing as scan_for_new_movies sees it: True, False, or an
\* exception
ScanOutcomes == {"true", "false", "raises"}

\* variant: an exception of a scan ends the scheduler
AtAfterScanOrCrash(result) == IF result = "raises" THEN "crashed" ELSE "loop"

\* where start_scheduler stands when scan_for_new_movies is through: the
\* except of line 39 keeps every exception of the scan, and the job stays
\* scheduled
AtAfterScan(result) == "loop"

\* scan_for_new_movies (lines 24-40): last_scan is set after True and after
\* False, and left alone by the except branch
ScanForNewMovies(sch, result) ==
  [sch EXCEPT !.scans = (@ + 1) % (MaxScans + 1),
              !.last = result,
              !.last_scan = IF result = "raises" THEN @ ELSE TRUE,
              !.after_failure = sch.last \in {"false", "raises"},
              !.at = AtAfterScan(result)]

\* everything but the scheduler
SchedFrame ==
  /\ UNCHANGED filtervars
  /\ UNCHANGED netvars
  /\ UNCHANGED << franchise_only, original_only, page_answers, requested,
                  accepted, rejected, candidates >>
  /\ UNCHANGED << upcoming_exists, staged, days_old, cleanup_count,
                  cleanup_ret, listing >>
  /\ UNCHANGED << folder_name, parse_result >>
  /\ UNCHANGED << processed_movies, with_trailers, events, calls, last_event >>
  /\ UNCHANGED << radarr_service, integration_mode, all_movies, wanted_movies,
                  filtered, warned >>
  /\ UNCHANGED libvars
  /\ UNCHANGED upvars
  /\ UNCHANGED << prog, disk, run, pc, i, target_path, trailers, video_url, j,
                  success_count, outcome, made, fetched, tries, wins, disk0,
                  prev, faults >>

\* start_scheduler, lines 44-54: the job is scheduled for one interval from
\* now, then the initial scan runs
StartScheduler ==
  /\ prog = "scheduler"
  /\ scheduler.at = "constructed"
  /\ \E result \in ScanOutcomes :
       scheduler' = ScanForNewMovies(
                      [scheduler EXCEPT !.until_due = scheduler.interval], result)
  /\ SchedFrame

\* lines 58-60 with no job due: run_pending does nothing, sleep(1) passes
Sleep ==
  /\ prog = "scheduler"
  /\ scheduler.at = "loop"
  /\ scheduler.until_due > 0
  /\ scheduler' = [scheduler EXCEPT !.until_due = @ - 1]
  /\ SchedFrame

\* lines 58-60 with the job due: run_pending calls scan_for_new_movies and
\* schedules the job one interval on
RunPending ==
  /\ prog = "scheduler"
  /\ scheduler.at = "loop"
  /\ scheduler.until_due = 0
  /\ \E result \in ScanOutcomes :
       scheduler' = ScanForNewMovies(
                      [scheduler EXCEPT !.until_due = scheduler.interval], result)
  /\ SchedFrame

\* lines 62-63: Ctrl-C ends the loop
StopScheduler ==
  /\ prog = "scheduler"
  /\ scheduler.at = "loop"
  /\ scheduler' = [scheduler EXCEPT !.at = "stopped"]
  /\ SchedFrame

SchedInit ==
  /\ prog = "scheduler"
  /\ disk = InitDisk
  /\ discovered = <<>>
  /\ radarr_ok = FALSE
  /\ radarr_service = FALSE
  /\ integration_mode = "upcoming"
  /\ all_movies = <<>>
  /\ wanted_movies = <<>>
  /\ NotStarted
  /\ DiscoverIdle /\ FilterIdle /\ NetIdle
  /\ SweepIdle /\ NamesIdle /\ MonitorIdle
  /\ scheduler \in {SchedulerWith(n) : n \in 1..MaxInterval}

SchedNext == StartScheduler \/ Sleep \/ RunPending \/ StopScheduler

\* the loop of start_scheduler goes on for as long as the process runs;
\* when the user stops it is left open
SchedSpec ==
  /\ SchedInit
  /\ [][SchedNext]_vars
  /\ WF_vars(StartScheduler)
  /\ WF_vars(Sleep)
  /\ WF_vars(RunPending)

\* ----------------------------------------------------- cleanup_old_upcoming
\* UpcomingConfig.cleanup_days, the retention the entry point passes
cleanup_days == 30

\* datetime.now(), as a date
Today == [year |-> 2026, month |-> 11, day |-> 6]

DaysInMonth(y, m) ==
  LET leap == (y % 4 = 0 /\ y % 100 # 0) \/ y % 400 = 0 IN
  IF m = 2 THEN (IF leap THEN 29 ELSE 28)
  ELSE IF m \in {4, 6, 9, 11} THEN 30 ELSE 31

\* the number of the day in the proleptic Gregorian calendar, as the
\* difference of two datetime values counts days
DayNumber(y, m, d) ==
  LET yy == IF m <= 2 THEN y - 1 ELSE y
      era == yy \div 400
      yoe == yy - era * 400
      mp == IF m > 2 THEN m - 3 ELSE m + 9
      doy == (153 * mp + 2) \div 5 + d - 1
      doe == yoe * 365 + yoe \div 4 - yoe \div 100 + doy
  IN era * 146097 + doe - 719468

AllDigits(t) == t # <<>> /\ \A n \in 1..Len(t) : IsDigit(t[n])

NoDate == [ok |-> FALSE, year |-> 0, month |-> 0, day |-> 0]

\* variant: any one or two digits are a day of the month
ParseDateAnyDay(t) ==
  LET dashes == {n \in 1..Len(t) : t[n] = "-"}
  IN IF Cardinality(dashes) # 2 THEN NoDate
     ELSE LET d1 == CHOOSE n \in dashes : \A k \in dashes : n <= k
              d2 == CHOOSE n \in dashes : \A k \in dashes : k <= n
              ys == SubSeq(t, 1, d1 - 1)
              ms == SubSeq(t, d1 + 1, d2 - 1)
              ds == SubSeq(t, d2 + 1, Len(t))
          IN IF ~(AllDigits(ys) /\ AllDigits(ms) /\ AllDigits(ds)) THEN NoDate
             ELSE IF Len(ys) # 4 \/ Len(ms) > 2 \/ Len(ds) > 2 THEN NoDate
             ELSE IF ToInt(ys) < 1 \/ ToInt(ms) \notin 1..12 THEN NoDate
             ELSE [ok |-> TRUE, year |-> ToInt(ys), month |-> ToInt(ms),
                   day |-> ToInt(ds)]

\* datetime.strptime(s, '%Y-%m-%d'): four digits, one or two digits, one or
\* two digits, separated by '-', that name a day of the calendar; anything
\* else raises ValueError
ParseDate(t) ==
  LET dashes == {n \in 1..Len(t) : t[n] = "-"}
  IN IF Cardinality(dashes) # 2 THEN NoDate
     ELSE LET d1 == CHOOSE n \in dashes : \A k \in dashes : n <= k
              d2 == CHOOSE n \in dashes : \A k \in dashes : k <= n
              ys == SubSeq(t, 1, d1 - 1)
              ms == SubSeq(t, d1 + 1, d2 - 1)
              ds == SubSeq(t, d2 + 1, Len(t))
          IN IF ~(AllDigits(ys) /\ AllDigits(ms) /\ AllDigits(ds)) THEN NoDate
             ELSE IF Len(ys) # 4 \/ Len(ms) > 2 \/ Len(ds) > 2 THEN NoDate
             ELSE IF ToInt(ys) < 1 \/ ToInt(ms) \notin 1..12 THEN NoDate
             ELSE IF ToInt(ds) \notin 1..DaysInMonth(ToInt(ys), ToInt(ms))
             THEN NoDate
             ELSE [ok |-> TRUE, year |-> ToInt(ys), month |-> ToInt(ms),
                   day |-> ToInt(ds)]

\* (today - release_date).days: today carries the time of day and the
\* release date is a midnight, so the whole days are the difference of the
\* two day numbers, negative before the release
DaysSinceRelease(d) ==
  DayNumber(Today.year, Today.month, Today.day) - DayNumber(d.year, d.month, d.day)

\* One entry of the staging path. is_dir: a directory other than README.md;
\* info_file: "none", "unreadable" (json.load raises) or "record";
\* has_date: the record has a release_date key; trailers: media files in
\* trailers/.
Entry(is_dir, info_file, has_date, release_date, n) ==
  [exists |-> TRUE, is_dir |-> is_dir, info_file |-> info_file,
   has_date |-> has_date, release_date |-> release_date, trailers |-> n]

\* what shutil.rmtree leaves of an entry
RemovedEntry ==
  [exists |-> FALSE, is_dir |-> FALSE, info_file |-> "none",
   has_date |-> FALSE, release_date |-> <<>>, trailers |-> 0]

\* release_date strings: 31, 30 and 29 days before Today, a later day, a day
\* the calendar does not have, and no date at all
ReleaseDates ==
  [ago31 |-> <<"2", "0", "2", "6", "-", "1", "0", "-", "0", "6">>,
   ago30 |-> <<"2", "0", "2", "6", "-", "1", "0", "-", "0", "7">>,
   ago29 |-> <<"2", "0", "2", "6", "-", "1", "0", "-", "0", "8">>,
   later |-> <<"2", "0", "2", "7", "-", "0", "3", "-", "0", "1">>,
   not_a_day |-> <<"2", "0", "2", "6", "-", "0", "2", "-", "3", "0">>,
   not_a_date |-> <<"s", "o", "o", "n">>]

\* What the staging path can hold: README.md, a folder without a record, a
\* folder whose record is not JSON, records without a usable release date,
\* and records released 31, 30 and 29 days ago and in the future.
EntryPool ==
  { Entry(FALSE, "none", FALSE, <<>>, 0),
    Entry(TRUE, "none", FALSE, <<>>, 1),
    Entry(TRUE, "unreadable", FALSE, <<>>, 1),
    Entry(TRUE, "record", FALSE, <<>>, 1),
    Entry(TRUE, "record", TRUE, <<>>, 1),
    Entry(TRUE, "record", TRUE, ReleaseDates.not_a_date, 1),
    Entry(TRUE, "record", TRUE, ReleaseDates.not_a_day, 1),
    Entry(TRUE, "record", TRUE, ReleaseDates.ago31, 1),
    Entry(TRUE, "record", TRUE, ReleaseDates.ago30, 1),
    Entry(TRUE, "record", TRUE, ReleaseDates.ago29, 0),
    Entry(TRUE, "record", TRUE, ReleaseDates.later, 1) }

\* variant: a directory without movie_info.json is taken for an old one
SweepEntryUnrecorded(e, days) ==
  IF ~e.is_dir THEN "kept"
  ELSE IF e.info_file = "none" THEN "removed"
  ELSE IF e.info_file = "unreadable" THEN "warned"
  ELSE IF ~e.has_date \/ e.release_date = <<>> THEN "kept"
  ELSE LET d == ParseDate(e.release_date) IN
       IF ~d.ok THEN "warned"
       ELSE IF DaysSinceRelease(d) > days THEN "removed"
       ELSE "kept"

\* variant: a release is old from the retention on
SweepEntryFromRetention(e, days) ==
  IF ~e.is_dir THEN "kept"
  ELSE IF e.info_file = "none" THEN "kept"
  ELSE IF e.info_file = "unreadable" THEN "warned"
  ELSE IF ~e.has_date \/ e.release_date = <<>> THEN "kept"
  ELSE LET d == ParseDate(e.release_date) IN
       IF ~d.ok THEN "warned"
       ELSE IF DaysSinceRelease(d) >= days THEN "removed"
       ELSE "kept"

\* the body of the loop for one entry: "kept" (one of the continue
\* statements, or the release is not long enough ago), "warned" (the except
\* branch) or "removed"
SweepEntry(e, days) ==
  IF ~e.is_dir THEN "kept"
  ELSE IF e.info_file = "none" THEN "kept"
  ELSE IF e.info_file = "unreadable" THEN "warned"
  ELSE IF ~e.has_date \/ e.release_date = <<>> THEN "kept"
  ELSE LET d == ParseDate(e.release_date) IN
       IF ~d.ok THEN "warned"
       ELSE IF DaysSinceRelease(d) > days THEN "removed"
       ELSE "kept"

\* variant: the first record that cannot be read ends the loop
SweptEntriesUntilError(entries, days) ==
  LET bad == {n \in 1..Len(entries) : SweepEntry(entries[n], days) = "warned"}
  IN [n \in 1..Len(entries) |->
        IF SweepEntry(entries[n], days) = "removed" /\ \A b \in bad : n < b
        THEN RemovedEntry
        ELSE entries[n]]

\* the staging path after the loop
SweptEntries(entries, days) ==
  [n \in 1..Len(entries) |->
     IF SweepEntry(entries[n], days) = "removed" THEN RemovedEntry
     ELSE entries[n]]

\* cleanup_count after the loop
RemovedCount(entries, days) ==
  Cardinality({n \in 1..Len(entries) : SweepEntry(entries[n], days) = "removed"})

\* one call of cleanup_old_upcoming on some staging path
SweepInputs ==
  /\ upcoming_exists \in BOOLEAN
  /\ staged \in IF upcoming_exists THEN SeqsUpTo(EntryPool, MaxStaged) ELSE {<<>>}
  /\ days_old \in {0, cleanup_days - 1, cleanup_days, cleanup_days + 1}
  /\ cleanup_count = 0
  /\ cleanup_ret = NotReturned
  /\ listing = <<>>

\* cleanup_old_upcoming (lines 586-631): it has no return statement with a
\* value, so that the caller receives None
CleanupOldUpcoming ==
  /\ prog = "sweep"
  /\ pc = "idle"
  /\ IF ~upcoming_exists
     THEN UNCHANGED << staged, cleanup_count >>
     ELSE /\ staged' = SweptEntries(staged, days_old)
          /\ cleanup_count' = RemovedCount(staged, days_old)
  /\ cleanup_ret' = [returned |-> TRUE, none |-> TRUE, count |-> 0]
  /\ pc' = "swept"
  /\ UNCHANGED << upcoming_exists, days_old, listing >>
  /\ UNCHANGED << folder_name, parse_result >>
  /\ UNCHANGED << processed_movies, with_trailers, events, calls, last_event >>
  /\ UNCHANGED << franchise_only, original_only, page_answers, requested,
                  accepted, rejected, candidates >>
  /\ UNCHANGED << radarr_service, integration_mode, all_movies, wanted_movies,
                  filtered, warned >>
  /\ UNCHANGED libvars
  /\ UNCHANGED upvars
  /\ UNCHANGED morevars
  /\ UNCHANGED << prog, disk, run, i, target_path, trailers, video_url, j,
                  success_count, outcome, made, fetched, tries, wins, disk0,
                  prev, faults >>

\* ----------------------------------------------------- list_upcoming_movies
\* One element of the list: the defaults of lines 560-564, the record merged
\* into them when json.load succeeds (the except of line 572 only logs), and
\* the count of the media files in trailers/.
ListedMovie(e, n) ==
  [folder |-> n,
   from_record |-> e.info_file = "record",
   release_date |-> IF e.info_file = "record" /\ e.has_date
                    THEN e.release_date ELSE <<>>,
   trailers_count |-> e.trailers]

\* the loop of lines 555-582; no record of the model has a popularity, so
\* that the stable sort of line 584 keeps the order
RECURSIVE ListFrom(_, _)
ListFrom(entries, n) ==
  IF n > Len(entries) THEN <<>>
  ELSE (IF entries[n].is_dir THEN <<ListedMovie(entries[n], n)>> ELSE <<>>)
       \o ListFrom(entries, n + 1)

\* list_upcoming_movies (lines 549-584)
ListUpcomingMovies ==
  /\ prog = "sweep"
  /\ pc = "idle"
  /\ listing' = IF upcoming_exists THEN ListFrom(staged, 1) ELSE <<>>
  /\ pc' = "listed"
  /\ UNCHANGED << upcoming_exists, staged, days_old, cleanup_count,
                  cleanup_ret >>
  /\ UNCHANGED << folder_name, parse_result >>
  /\ UNCHANGED << processed_movies, with_trailers, events, calls, last_event >>
  /\ UNCHANGED << franchise_only, original_only, page_answers, requested,
                  accepted, rejected, candidates >>
  /\ UNCHANGED << radarr_service, integration_mode, all_movies, wanted_movies,
                  filtered, warned >>
  /\ UNCHANGED libvars
  /\ UNCHANGED upvars
  /\ UNCHANGED morevars
  /\ UNCHANGED << prog, disk, run, i, target_path, trailers, video_url, j,
                  success_count, outcome, made, fetched, tries, wins, disk0,
                  prev, faults >>

\* --------------------------------------------------- scan_existing_movies
\* scan_existing_movies (lines 216-257) called on a library
ScanLibrary ==
  /\ prog = "scan"
  /\ pc = "idle"
  /\ existing_movies' = ScanExistingMovies(disk)
  /\ pc' = "scanned"
  /\ UNCHANGED toolvars
  /\ UNCHANGED << radarr_service, integration_mode, all_movies, wanted_movies,
                  filtered, warned >>
  /\ UNCHANGED << skip_existing, movies_to_process, movie, handled, acquired >>
  /\ UNCHANGED upvars
  /\ UNCHANGED << prog, disk, run, i, target_path, trailers, video_url, j,
                  success_count, outcome, made, fetched, tries, wins, disk0,
                  prev, faults >>

\* ------------------------------------------------------ folder-name parsers
\* check_new_movie, lines 38-44: the same pattern, strip and int as
\* scan_existing_movies
MonitorParse(name) == ParseFolderName(name)

\* movie_pattern.match(name) for r'^(.+)\s+\((\d{4})\)$': the name ends with
\* a 4-digit year in parentheses, with whitespace before it and at least one
\* character before that whitespace
UtilityPatternMatches(name) ==
  LET p == Len(name) - 5 IN
  /\ p >= 3
  /\ name[p] = "("
  /\ \A d \in 1..4 : IsDigit(name[p + d])
  /\ name[p + 5] = ")"
  /\ \E g \in 1..(p - 2) : \A n \in (g + 1)..(p - 1) : IsSpace(name[n])

\* scan_and_create_trailer_folders, lines 53-59: whether a directory counts
\* as a movie folder
UtilityIsMovie(name) ==
  /\ ~(name # <<>> /\ name[1] \in {"_", "."})
  /\ UtilityPatternMatches(name)

\* The directory names: a prefix, a title, a separator, a year in some
\* notation and a suffix, each of them possibly missing.
NamePool ==
  LET prefixes ==
        { <<>>,
        <<" ">>,
        <<"_">>,
        <<".">> }
      titles ==
        { <<>>,
        <<"I", "n", "c", "e", "p", "t", "i", "o", "n">>,
        <<"M", "o", "v", "i", "e", " ", "N", "a", "m", "e">>,
        <<"T", "2">>,
        <<"u", "p", "c", "o", "m", "i", "n", "g", "_", "t", "r", "a", "i", "l", "e", "r", "s">> }
      separators ==
        { <<>>,
        <<" ">>,
        <<" ", " ">> }
      years ==
        { <<>>,
        <<"(", "2", "0", "1", "0", ")">>,
        <<"(", "9", "9", ")">>,
        <<"(", "1", "2", "3", "4", "5", ")">>,
        <<"(", "2", "0", "x", "0", ")">>,
        <<"[", "2", "0", "1", "0", "]">>,
        <<"(", "2", "0", "1", "0">> }
      suffixes ==
        { <<>>,
        <<" ", "[", "1", "0", "8", "0", "p", "]">>,
        <<" ", "(", "1", "9", "9", "9", ")">>,
        <<"(", "1", "2", "3", ")">>,
        <<" ">> }
  IN {a \o b \o c \o d \o e :
        a \in prefixes, b \in titles, c \in separators, d \in years,
        e \in suffixes}

\* one directory name handed to the three components
NamesInputs ==
  /\ folder_name \in NamePool
  /\ parse_result = [scan |-> NoMatch, monitor |-> NoMatch, utility |-> FALSE]

\* the library scan, the monitor and the trailer-folder utility each look at
\* the name of the directory
ParseName ==
  /\ prog = "names"
  /\ pc = "idle"
  /\ parse_result' = [scan |-> ParseFolderName(folder_name),
                monitor |-> MonitorParse(folder_name),
                utility |-> UtilityIsMovie(folder_name)]
  /\ pc' = "parsed"
  /\ UNCHANGED folder_name
  /\ UNCHANGED << processed_movies, with_trailers, events, calls, last_event >>
  /\ UNCHANGED << upcoming_exists, staged, days_old, cleanup_count,
                  cleanup_ret, listing >>
  /\ UNCHANGED << franchise_only, original_only, page_answers, requested,
                  accepted, rejected, candidates >>
  /\ UNCHANGED << radarr_service, integration_mode, all_movies, wanted_movies,
                  filtered, warned >>
  /\ UNCHANGED libvars
  /\ UNCHANGED upvars
  /\ UNCHANGED morevars
  /\ UNCHANGED << prog, disk, run, i, target_path, trailers, video_url, j,
                  success_count, outcome, made, fetched, tries, wins, disk0,
                  prev, faults >>

\* ------------------------------------------------------------- the monitor
\* str(n) of a number that is not negative
RECURSIVE IntToStr(_)
IntToStr(n) ==
  LET digit(d) == <<"0", "1", "2", "3", "4", "5", "6", "7", "8", "9">>[d + 1]
  IN IF n < 10 THEN <<digit(n)>>
     ELSE IntToStr(n \div 10) \o <<digit(n % 10)>>

\* movie_key = f"{title}_{year}"
MovieKey(title, year) == title \o <<"_">> \o IntToStr(year)

\* variant: no key counts as processed
NeverProcessed(key, keys) == FALSE

\* if movie_key in self.processed_movies
AlreadyProcessed(key, keys) == key \in keys

\* The directories events arrive for: two names of one movie, another
\* movie, and one that is no movie folder.
Watched ==
  [up |-> <<"U", "p", " ", "(", "2", "0", "0", "9", ")">>,
   up_rip |-> <<"U", "p", " ", " ", "(", "2", "0", "0", "9", ")", " ", "[", "1", "0", "8", "0", "p", "]">>,
   se7en |-> <<"S", "e", "7", "e", "n", " ", "(", "1", "9", "9", "5", ")">>,
   notes |-> <<"n", "o", "t", "e", "s">>]

WatchedNames == {Watched.up, Watched.up_rip, Watched.se7en, Watched.notes}

\* what self.downloader.process_single_movie(title, year) can do: return
\* True after it placed trailers, return False, or raise
ProcessSingleMovie == {"true", "false", "raises"}

\* variant: the key is remembered whatever the acquisition did
ProcessedAfterAttempt(result, key, processed) == processed \cup {key}

\* lines 64-72: the key is added after process_single_movie returned True;
\* after False, and after an exception, the set stays as it is
ProcessedAfter(result, key, processed) ==
  IF result = "true" THEN processed \cup {key} ELSE processed

\* a monitor process starts with an empty set over some library
MonitorInputs ==
  /\ processed_movies = {}
  /\ with_trailers \in SUBSET (WatchedNames \ {Watched.notes})
  /\ events = 0
  /\ calls = 0
  /\ last_event = NoEvent

\* on_created / on_moved of a directory: check_new_movie (lines 34-72)
CheckNewMovie ==
  /\ prog = "monitor"
  /\ events < MaxEvents
  /\ events' = events + 1
  /\ \E name \in WatchedNames, result \in ProcessSingleMovie :
       LET m == MonitorParse(name)
           key == MovieKey(m.title, m.year)
           \* retry: the event before this one was for the same key and its
           \* acquisition failed or raised
           did(what) == [name |-> name, key |-> IF m.ok THEN key ELSE <<>>,
                         outcome |-> what,
                         retry |-> /\ m.ok /\ last_event.key = key
                                   /\ last_event.outcome \in {"failed", "raised"}]
       IN IF ~m.ok
          THEN /\ last_event' = did("no match")
               /\ UNCHANGED << processed_movies, with_trailers, calls >>
          ELSE IF AlreadyProcessed(key, processed_movies)
          THEN /\ last_event' = did("duplicate")
               /\ UNCHANGED << processed_movies, with_trailers, calls >>
          ELSE IF name \in with_trailers
          THEN /\ last_event' = did("has trailers")
               /\ processed_movies' = processed_movies \cup {key}
               /\ UNCHANGED << with_trailers, calls >>
          ELSE /\ calls' = calls + 1
               /\ processed_movies' = ProcessedAfter(result, key, processed_movies)
               /\ IF result = "true"
                  THEN /\ last_event' = did("acquired")
                       /\ with_trailers' = with_trailers \cup {name}
                  ELSE /\ last_event' = did(IF result = "false" THEN "failed"
                                            ELSE "raised")
                       /\ UNCHANGED with_trailers
  /\ UNCHANGED << folder_name, parse_result >>
  /\ UNCHANGED << upcoming_exists, staged, days_old, cleanup_count,
                  cleanup_ret, listing >>
  /\ UNCHANGED << franchise_only, original_only, page_answers, requested,
                  accepted, rejected, candidates >>
  /\ UNCHANGED << radarr_service, integration_mode, all_movies, wanted_movies,
                  filtered, warned >>
  /\ UNCHANGED libvars
  /\ UNCHANGED upvars
  /\ UNCHANGED morevars
  /\ UNCHANGED << prog, disk, run, pc, i, target_path, trailers, video_url, j,
                  success_count, outcome, made, fetched, tries, wins, disk0,
                  prev, faults >>

\* ---------------------------------------------------------------- the tools
\* discovery, the sweeper, the monitor and the folder-name parsers, each
\* called on inputs of its own
ToolsInit ==
  /\ prog \in {"discover", "filter", "sweep", "names", "monitor", "scan",
               "network"}
  /\ disk \in IF prog = "scan"
               THEN {DiskWith(fs) : fs \in (SUBSET LibraryFolders) \ {{}}}
               ELSE {InitDisk}
  /\ discovered = <<>>
  /\ radarr_ok = FALSE
  /\ radarr_service = FALSE
  /\ integration_mode = "upcoming"
  /\ all_movies = <<>>
  /\ wanted_movies = <<>>
  /\ NotStarted
  /\ IF prog = "discover" THEN DiscoverInputs /\ FilterIdle
     ELSE IF prog = "filter" THEN FilterInputs
     ELSE DiscoverIdle /\ FilterIdle
  /\ IF prog = "sweep" THEN SweepInputs ELSE SweepIdle
  /\ IF prog = "names" THEN NamesInputs ELSE NamesIdle
  /\ IF prog = "monitor" THEN MonitorInputs ELSE MonitorIdle
  /\ IF prog = "network" THEN NetInputs ELSE NetIdle
  /\ SchedIdle

ToolsNext ==
  \/ GetUpcoming
  \/ PassesAll
  \/ RunScanExisting
  \/ RunDownloadMovie
  \/ CleanupOldUpcoming
  \/ ParseName
  \/ CheckNewMovie
  \/ ListUpcomingMovies
  \/ ScanLibrary

ToolsSpec == ToolsInit /\ [][ToolsNext]_vars

\* ================================================================ claims
\* the movie folder candidate n of the running invocation is routed to
TargetOf(n) ==
  TargetFor(upcoming_movies[n], RadarrPathFor(upcoming_movies[n], radarr_ok, disk))

Candidates == 1..Len(upcoming_movies)

InUpcoming == prog = "upcoming"
InLibrary == prog = "library"

C2_SecondRunIdempotent ==
  (InUpcoming /\ run >= 2 /\ prev.done)
    => \A n \in Candidates :
         prev.outcome[n] = "processed"
           => /\ disk[TargetOf(n)] = prev.disk[TargetOf(n)]
              /\ pc = "returned" => outcome[n] = "skipped"

C2_Witness ==
  /\ InUpcoming /\ run = 2 /\ prev.done /\ pc = "returned"
  /\ \E n \in Candidates : prev.outcome[n] = "processed" /\ outcome[n] = "skipped"

\* C3 -- (as claimed) once process_existing_movies downloaded a trailer for
\* the movie of folder F, the next scan reports has_trailers for F.
C3_Claim ==
  (InLibrary /\ pc = "scanned" /\ prev.done)
    => \A n \in 1..Len(existing_movies) :
         existing_movies[n].folder \in prev.acquired
           => existing_movies[n].has_trailers

\* C4 -- (as claimed) when every download attempt of a target failed,
\* finishing the target removes the trailers folder and the movie folder its
\* mkdir created and leaves no movie_info.json.
C4_Claim ==
  [][ (InUpcoming /\ pc = "download" /\ j = Len(Slots(trailers))
        /\ pc' = "examine" /\ tries[i] >= 1 /\ success_count = 0)
      => /\ "trailers" \in made[i] => ~disk'[target_path].tdir
         /\ "movie" \in made[i] => ~disk'[target_path].dir
         /\ disk'[target_path].info = NoInfo
         /\ disk'[target_path].media = {}
    ]_vars

\* C5 -- (as claimed) when the trailer list of a target is empty or its
\* fetch fails, the directories created for the target are removed.
C5_Claim ==
  [][ (InUpcoming /\ pc = "fetch" /\ pc' = "examine")
      => /\ "trailers" \in made[i] => ~disk'[target_path].tdir
         /\ "movie" \in made[i] => ~disk'[target_path].dir
         /\ disk'[target_path].info = NoInfo
    ]_vars

\* C6 -- (as claimed) when process_movie created its directories and every
\* download failed, neither the empty trailers folder nor a freshly created
\* movie folder is left when it returns.
C6_Claim ==
  [][ (InLibrary /\ pc = "pm_download"
        /\ j = Len(Take(trailers, LibraryTrailerLimit)) /\ success_count = 0)
      => /\ "trailers" \in made[i] => ~disk'[target_path].tdir
         /\ "movie" \in made[i] => ~disk'[target_path].dir
    ]_vars

\* The states of an AcquisitionTarget, read off the disk and the run's log.
C7_Pending(n) ==
  outcome[n] = "skipped" /\ made[n] = {} /\ fetched[n] = 0 /\ tries[n] = 0
C7_Complete(n) == disk[TargetOf(n)].media # {}
C7_RolledBack(n) ==
  /\ "trailers" \in made[n] => ~disk[TargetOf(n)].tdir
  /\ "movie" \in made[n] => ~disk[TargetOf(n)].dir

\* C7 -- (as claimed) when download_upcoming_trailers returns, every target
\* is PENDING (skipped, untouched), COMPLETE (a trailer on disk) or
\* ROLLED_BACK (nothing it created is left), never ACQUIRING with a created
\* but empty trailers folder.
C7_Claim ==
  (InUpcoming /\ pc = "returned")
    => \A n \in Candidates : C7_Pending(n) \/ C7_Complete(n) \/ C7_RolledBack(n)

\* C8 -- every movie_info.json on disk sits beside at least one trailer, and
\* its trailers_count is the number of downloads that succeeded in the
\* acquisition that wrote it, between 1 and max_trailers_per_movie.
C8_RecordOnlyAfterSuccess ==
  \A k \in DirKeys :
    disk[k].info # NoInfo
      => /\ disk[k].media # {}
         /\ disk[k].info.trailers_count = wins[k]
         /\ disk[k].info.trailers_count = Cardinality(disk[k].media)
         /\ 1 <= disk[k].info.trailers_count
         /\ disk[k].info.trailers_count <= max_trailers_per_movie

\* a record written after one of two attempted downloads failed
C8_Witness ==
  \E n \in 1..Len(outcome) :
    /\ InUpcoming /\ outcome[n] = "processed" /\ tries[n] = 2
    /\ disk[TargetOf(n)].info # NoInfo
    /\ disk[TargetOf(n)].info.trailers_count = 1

\* The quantities of the end-to-end count: n candidates, k of them done when
\* the run starts, and a run in which no call fails.
C9_InitiallyDone(n) == HasTrailers(disk0[TargetOf(n)])
C9_K == Cardinality({n \in Candidates : C9_InitiallyDone(n)})
C9_N == Len(upcoming_movies)
C9_NothingFails ==
  /\ faults = prev.faults
  /\ \A n \in Candidates :
       ~C9_InitiallyDone(n) => MovieTrailers(Catalog[upcoming_movies[n]].videos) # <<>>
C9_RecordsWritten == Cardinality({k \in DirKeys : disk[k].info.downloaded_at = run})
C9_DistinctTargets ==
  \A a, b \in Candidates : a # b => TargetOf(a) # TargetOf(b)
C9_StagingAcquired ==
  {n \in Candidates : ~C9_InitiallyDone(n) /\ TargetOf(n)[1] = "staging"}

\* C9 (as claimed) -- of n candidates with k already done and nothing
\* failing, the run reports processed = n-k, skipped = k, errors = 0 and
\* writes n-k movie_info.json records.
C9_Claim ==
  (InUpcoming /\ pc = "returned" /\ C9_N >= 1 /\ C9_NothingFails)
    => /\ ret.processed = C9_N - C9_K
       /\ ret.skipped = C9_K
       /\ ret.errors = 0
       /\ C9_RecordsWritten = C9_N - C9_K

\* C9 (amended) -- with pairwise distinct target folders the counters are as
\* claimed, and one record is written per acquired staging target, none
\* into a folder of the tracker.
C9_CountsWhenNothingFails ==
  (InUpcoming /\ pc = "returned" /\ C9_N >= 1 /\ C9_NothingFails
     /\ C9_DistinctTargets)
    => /\ ret.processed = C9_N - C9_K
       /\ ret.skipped = C9_K
       /\ ret.errors = 0
       /\ C9_RecordsWritten = Cardinality(C9_StagingAcquired)
       /\ \A n \in C9_StagingAcquired : disk[TargetOf(n)].info.downloaded_at = run
       /\ \A k \in DirKeys : k[1] = "radarr" => disk[k].info = NoInfo

\* three candidates, one already done, two processed, two records
C9_Witness ==
  /\ InUpcoming /\ pc = "returned" /\ C9_NothingFails /\ C9_DistinctTargets
  /\ C9_N = 3 /\ C9_K = 1
  /\ ret.processed = 2 /\ ret.skipped = 1
  /\ C9_RecordsWritten = 2

\* candidates of the run that were added to the counter `what`
C10_Tally(what) == Cardinality({n \in Candidates : outcome[n] = what})

\* C10 -- the counters are returned, and at return every candidate has been
\* counted exactly once: total = processed + skipped + errors.
C10_CountersAddUp ==
  (InUpcoming /\ pc = "returned")
    => /\ ret = stats
       /\ ret.total = Len(upcoming_movies)
       /\ ret.total = ret.processed + ret.skipped + ret.errors
       /\ ret.processed = C10_Tally("processed")
       /\ ret.skipped = C10_Tally("skipped")
       /\ ret.errors = C10_Tally("error")
       /\ C10_Tally("none") = 0

\* a run that met a skip, a success, an empty trailer list and a failure
C10_Witness ==
  /\ InUpcoming /\ pc = "returned"
  /\ ret.skipped >= 1 /\ ret.processed >= 1 /\ ret.errors >= 1
  /\ ret.total = 3

\* C11 -- (as claimed) a filesystem failure met while a target is handled,
\* be it while its path is resolved, its trailers folder examined or its
\* directories created, adds one to `errors` and the run goes on to the next
\* candidate.
C11_Claim ==
  [][ (InUpcoming /\ pc \in {"examine", "mkdir"} /\ faults' = faults + 1
        /\ pc' # "interrupted")
      => /\ stats'.errors = stats.errors + 1
         /\ i' = i + 1
         /\ pc' = "examine"
    ]_vars

\* C12 -- (as claimed) between two slots of a target every slot that failed
\* has used retry_attempts tries and every slot that succeeded at least one
\* and at most retry_attempts.
C12_Claim ==
  (InUpcoming /\ pc = "download")
    => /\ tries[i] >= success_count + retry_attempts * (j - success_count)
       /\ tries[i] <= retry_attempts * j

\* positions of the YouTube trailers in a catalog answer
C13_Eligible(vs) ==
  {p \in 1..Len(vs) : vs[p].type = "Trailer" /\ vs[p].site = "YouTube"}

\* the video handed to the fetch capability is the (n+1)-th YouTube trailer
\* of the catalog answer vs
C13_IsNext(vs, n, url) ==
  \E p \in C13_Eligible(vs) :
    /\ Cardinality({q \in C13_Eligible(vs) : q < p}) = n
    /\ url = vs[p].key

C14_InFlight == IF pc = "downloading" THEN 1 ELSE 0

\* C14 -- (as claimed) never more than max_concurrent_downloads downloads are
\* under way, and the pool takes up a waiting candidate while it has a free
\* worker.
C14_Claim ==
  /\ C14_InFlight <= max_concurrent_downloads
  /\ (InUpcoming /\ pc = "downloading" /\ i < Len(upcoming_movies)
        /\ C14_InFlight < max_concurrent_downloads)
       => ENABLED ExamineTarget

\* C15 -- (as claimed) an interrupted run has left no partially written
\* media file.
C15_Claim ==
  (InUpcoming /\ pc = "interrupted") => \A k \in DirKeys : ~disk[k].part

\* get_filtered_upcoming_movies has returned
Reconciled == prog = "reconcile" /\ pc = "filtered"

Ids(s) == {s[n].id : n \in 1..Len(s)}

\* 0 for a candidate the tracker wants, 1 for one only the catalog found
SourcePriority(m) == IF m.id \in TmdbIds(wanted_movies) THEN 0 ELSE 1

\* C16 -- (as claimed) in 'hybrid' mode no external id occurs twice in the
\* output, whatever the two lists hold, every candidate the tracker wants
\* precedes every catalog-only one, and candidates of equal source priority
\* are in descending popularity.
C16_Claim ==
  (Reconciled /\ radarr_service /\ integration_mode = "hybrid")
    => /\ \A a, b \in 1..Len(filtered) : a # b => filtered[a].id # filtered[b].id
       /\ \A a, b \in 1..Len(filtered) :
            a < b => /\ SourcePriority(filtered[a]) <= SourcePriority(filtered[b])
                     /\ SourcePriority(filtered[a]) = SourcePriority(filtered[b])
                          => filtered[a].popularity >= filtered[b].popularity

\* the wanted entries that resolve to a movie released within
\* [today, today + window]
WantedInWindow ==
  {id \in TmdbIds(wanted_movies) :
     LET d == MovieDetails(id) IN
     d # NoDetails /\ d.dated /\ 0 <= d.release_in /\ d.release_in <= days_ahead}

\* the movies discovery accepts
Accepted == {all_movies[n] : n \in {x \in 1..Len(all_movies) :
                                     all_movies[x].popularity >= popularity_threshold}}

\* C17 -- (as claimed) in 'hybrid' mode the output holds the candidates of
\* catalog discovery and the resolved wanted entries of the tracker, capped
\* to max_movies: nothing else, and all of them when the cap leaves room.
C17_Claim ==
  (Reconciled /\ radarr_service /\ integration_mode = "hybrid")
    => LET union == {m.id : m \in Accepted} \cup WantedInWindow IN
       /\ Len(filtered) <= max_movies_per_run
       /\ Ids(filtered) \subseteq union
       /\ Cardinality(union) <= max_movies_per_run => union \subseteq Ids(filtered)

\* C18 -- (as claimed) in 'radarr_only' mode the output is exactly the
\* wanted entries that resolve to a movie released inside the window,
\* whether or not discovery returned them.
C18_Claim ==
  (Reconciled /\ radarr_service /\ integration_mode = "radarr_only")
    => Ids(filtered) = WantedInWindow

\* the list is the discovery result: accepted movies of the answered pages
\* only, in descending popularity, at most max_movies of them, and none
\* left out unless the list is full of movies at least as popular
IsDiscoveryResult(list) ==
  /\ Len(list) <= max_movies_per_run
  /\ \A n \in 1..Len(list) : list[n] \in Accepted
  /\ \A a, b \in 1..Len(list) : a < b => list[a].popularity >= list[b].popularity
  /\ \A m \in Accepted :
       \/ Cardinality({n \in 1..Len(list) : list[n] = m})
            = Cardinality({n \in 1..Len(all_movies) : all_movies[n] = m})
       \/ /\ Len(list) = max_movies_per_run
          /\ list[Len(list)].popularity >= m.popularity

\* C19 -- without a tracker, or in mode 'upcoming', the output is the
\* discovery result: only movies the filter engine accepts, sorted by
\* popularity descending, at most max_movies of them.
C19_CatalogOnly ==
  (Reconciled /\ (~radarr_service \/ integration_mode = "upcoming"))
    => IsDiscoveryResult(filtered) /\ ~warned

\* a movie below the threshold was dropped and the other two were put in
\* order
C19_Witness ==
  /\ Reconciled /\ integration_mode = "upcoming"
  /\ Len(all_movies) = 3 /\ Len(filtered) = 2
  /\ all_movies[1].id = 3 /\ all_movies[2].id = 2 /\ all_movies[3].id = 1
  /\ filtered[1].id = 1 /\ filtered[2].id = 2

UnknownMode == integration_mode \notin {"upcoming", "radarr_only", "hybrid"}

\* C20 (as claimed) -- an unknown mode returns the discovery result, never
\* an empty list for the mode's sake, and a warning is logged.
C20_Claim ==
  (Reconciled /\ UnknownMode)
    => /\ IsDiscoveryResult(filtered)
       /\ filtered = <<>> => Accepted = {}
       /\ warned

\* C20 (amended) -- an unknown mode returns the discovery result, never an
\* empty list for the mode's sake; the warning is logged exactly when a
\* tracker is configured, since without one the mode is not looked at.
C20_UnknownModeFallsBack ==
  (Reconciled /\ UnknownMode)
    => /\ IsDiscoveryResult(filtered)
       /\ filtered = <<>> => Accepted = {}
       /\ warned <=> radarr_service

\* with a tracker and the mode 'both' the two accepted movies are returned
\* and the warning is logged
C20_Witness ==
  /\ Reconciled /\ UnknownMode /\ radarr_service
  /\ Len(filtered) = 2 /\ warned

\* the popularity field of a movie, 0 when it has none
C26_Popularity(m) == IF "popularity" \in DOMAIN m THEN m.popularity ELSE 0

\* C26: _passes_all_filters rejects every movie whose popularity is below the
\* threshold, whatever its other attributes and whatever the other filter
\* flags (a movie without popularity counts as 0), and accepts every movie at
\* or above the threshold when no other filter is configured.
C26_PopularityFilter ==
  pc = "discovered" =>
    \A m \in accepted \cup rejected :
      /\ C26_Popularity(m) < popularity_threshold => m \in rejected
      /\ (~franchise_only /\ ~original_only
            /\ C26_Popularity(m) >= popularity_threshold) => m \in accepted

\* under franchise_only both pages were read: the unpopular member of a
\* collection and the movie without popularity were rejected, a popular
\* member of a collection was accepted
C26_Witness ==
  /\ pc = "discovered"
  /\ franchise_only
  /\ FilmWithoutPopularity \in rejected
  /\ \E m \in rejected : "popularity" \in DOMAIN m /\ m.belongs_to_collection
                          /\ m.popularity < popularity_threshold
  /\ \E m \in accepted : m.belongs_to_collection

\* the pages a discovery may request that were answered with results
C28_Succeeded ==
  {p \in 1..Len(page_answers) :
     /\ p <= pages
     /\ page_answers[p].ok
     /\ \A q \in 1..p : page_answers[q].ok => page_answers[q].results # <<>>}

\* C28: a failed request for one page makes only that page be skipped: the
\* list get_upcoming_movies returns holds the accepted movies of every page
\* that was answered with results, before and behind a failed one (while the
\* list is shorter than max_movies_per_run, so that nothing was cut off).
C28_Claim ==
  (pc = "discovered" /\ Len(candidates) < max_movies_per_run) =>
    \A p \in C28_Succeeded :
      \A m \in Range(page_answers[p].results) :
        PassesAllFilters(m) => m \in Range(candidates)

\* a call of cleanup_old_upcoming, from its first line to its return
C21_Sweep == prog = "sweep" /\ pc = "idle" /\ pc' = "swept"

\* a staged directory whose record carries a release date that parses
C21_Dated(e) ==
  /\ e.is_dir
  /\ e.info_file = "record"
  /\ e.has_date
  /\ ParseDate(e.release_date).ok

\* C21: cleanup_old_upcoming(retention) removes the whole tree of a staged
\* directory whose record has a parseable release date exactly when the
\* whole days from the release to today exceed the retention: released 31
\* days ago it is removed under a retention of 30, released 30 or 29 days
\* ago it is retained.
C21_SweeperThreshold ==
  [][C21_Sweep =>
       \A n \in 1..Len(staged) :
         C21_Dated(staged[n]) =>
           /\ staged'[n] = RemovedEntry
                <=> DaysSinceRelease(ParseDate(staged[n].release_date)) > days_old
           /\ staged'[n] # RemovedEntry => staged'[n] = staged[n]
           /\ (days_old = cleanup_days
                 /\ staged[n].release_date = ReleaseDates.ago31)
                => staged'[n] = RemovedEntry
           /\ (days_old = cleanup_days
                 /\ staged[n].release_date \in {ReleaseDates.ago30, ReleaseDates.ago29})
                => staged'[n] = staged[n]]_vars

\* under a retention of 30 days one directory was removed while the record
\* released exactly 30 days ago is still there
C21_Witness ==
  /\ pc = "swept"
  /\ days_old = cleanup_days
  /\ \E n \in 1..Len(staged) : staged[n] = RemovedEntry
  /\ \E n \in 1..Len(staged) :
       staged[n].exists /\ staged[n].release_date = ReleaseDates.ago30

\* C22: the sweep returns to its caller the number of directory trees it
\* removed in that call, 0 when the staging path does not exist or nothing is
\* expired.
C22_Claim ==
  pc = "swept" =>
    /\ ~cleanup_ret.none
    /\ cleanup_ret.count = Cardinality({n \in 1..Len(staged) : ~staged[n].exists})

\* a staged directory whose record is not JSON or has no release date, an
\* empty one, or one that is not a date
C23_Ambiguous(e) ==
  /\ e.is_dir
  /\ \/ e.info_file = "unreadable"
     \/ /\ e.info_file = "record"
        /\ \/ ~e.has_date
           \/ e.release_date = <<>>
           \/ e.release_date \in {ReleaseDates.not_a_date, ReleaseDates.not_a_day}

\* C23: cleanup_old_upcoming leaves every staged directory whose record has
\* a missing, empty or unparsable release date, or is unreadable JSON,
\* exactly as it was, for any retention.
C23_AmbiguousUntouched ==
  [][C21_Sweep =>
       \A n \in 1..Len(staged) :
         C23_Ambiguous(staged[n]) => staged'[n] = staged[n]]_vars

\* a sweep with retention 0 removed a directory and kept an unreadable
\* record and a record dated 30 February
C23_Witness ==
  /\ pc = "swept"
  /\ days_old = 0
  /\ cleanup_count > 0
  /\ \E n \in 1..Len(staged) : staged[n].info_file = "unreadable"
  /\ \E n \in 1..Len(staged) :
       staged[n].exists /\ staged[n].release_date = ReleaseDates.not_a_day

\* the positions of a name where a 4-digit year in parentheses starts behind
\* at least one character
C24_YearPositions(name) ==
  {p \in 2..(Len(name) - 5) :
     /\ name[p] = "("
     /\ \A d \in 1..4 : IsDigit(name[p + d])
     /\ name[p + 5] = ")"}

C24_Inception == <<"I", "n", "c", "e", "p", "t", "i", "o", "n">>
C24_UpcomingTrailers ==
  <<"_", "u", "p", "c", "o", "m", "i", "n", "g", "_", "t", "r", "a", "i", "l", "e", "r", "s">>
C24_MovieName99 ==
  <<"M", "o", "v", "i", "e", " ", "N", "a", "m", "e", " ", "(", "9", "9", ")">>

\* the number four digits write
C24_Number(ds) ==
  1000 * DigitValue(ds[1]) + 100 * DigitValue(ds[2]) + 10 * DigitValue(ds[3])
    + DigitValue(ds[4])

\* C24: a name yields a title and a year exactly when it consists of a title
\* segment, a 4-digit year in parentheses and anything behind it; the title
\* is the text before the first such year, trimmed, and the year is its four
\* digits. 'Inception (2010)' gives ('Inception', 2010), '_upcoming_trailers'
\* and 'Movie Name (99)' give nothing, and a parenthesised number of more or
\* fewer than four digits is never the year.
C24_FolderNameParser ==
  pc = "parsed" =>
    LET ps == C24_YearPositions(folder_name) IN
    /\ parse_result.scan.ok <=> ps # {}
    /\ ps = {} => parse_result.scan = NoMatch
    /\ ps # {} =>
         LET p == CHOOSE x \in ps : \A y \in ps : x <= y IN
         /\ parse_result.scan.title = Strip(SubSeq(folder_name, 1, p - 1))
         /\ parse_result.scan.year = C24_Number(SubSeq(folder_name, p + 1, p + 4))
    /\ parse_result.monitor = parse_result.scan
    /\ folder_name = FolderName(C24_Inception, <<"2", "0", "1", "0">>)
         => parse_result.scan = [ok |-> TRUE, title |-> C24_Inception,
                                 year |-> 2010]
    /\ folder_name \in {C24_UpcomingTrailers, C24_MovieName99}
         => ~parse_result.scan.ok

\* a name with a number of five digits in parentheses before the year was
\* parsed to the year behind it, the number staying in the title
C24_Witness ==
  /\ pc = "parsed"
  /\ folder_name = C24_Inception \o <<" ">> \o <<"(", "1", "2", "3", "4", "5", ")">>
                     \o <<" ", "(", "1", "9", "9", "9", ")">>
  /\ parse_result.scan.ok
  /\ parse_result.scan.year = 1999
  /\ Len(parse_result.scan.title) = Len(C24_Inception) + 8

\* C25: the library scan, the monitor and the trailer-folder utility agree
\* for every directory name on whether it denotes a movie folder and, when it
\* does, on its title and year (the sweeper reads the record, not the name).
C25_Claim ==
  pc = "parsed" =>
    /\ parse_result.monitor = parse_result.scan
    /\ parse_result.utility <=> parse_result.scan.ok

\* the clean-up of a target none of whose downloads succeeded
C30_Rollback ==
  /\ InUpcoming
  /\ pc = "download"
  /\ j = Len(Slots(trailers))
  /\ success_count = 0
  /\ pc' = "examine"

\* C30: the clean-up removes only what the run created: the trailers folder
\* only if it is empty, the movie folder only if this run's mkdir created it
\* and it is empty now; a movie folder that was there before the run, the
\* tracker's movie folder and a directory that holds files stay, and no file
\* is touched.
C30_Claim ==
  [][C30_Rollback =>
       LET before == disk[target_path]
           after == disk'[target_path]
       IN /\ (before.tdir /\ ~after.tdir) => (before.media = {} /\ ~before.part)
          /\ (before.dir /\ ~after.dir)
               => /\ ~disk0[target_path].dir
                  /\ radarr_path = None
                  /\ ~before.other /\ before.info = NoInfo
          /\ after.media = before.media /\ after.part = before.part
          /\ after.other = before.other /\ after.info = before.info
          /\ \A k \in DirKeys \ {target_path} : disk'[k] = disk[k]]_vars

\* the key of the movie a directory name parses to
C27_KeyOf(name) ==
  LET m == ParseFolderName(name) IN m.title \o <<"_">> \o IntToStr(m.year)

\* C27: within one monitor process the set of processed keys only grows, a
\* key enters it only after an acquisition for it succeeded or after its
\* folder was found to hold trailers, and an event for a folder that parses
\* to a key already in the set triggers no acquisition.
C27_ProcessedSet ==
  [][prog = "monitor" =>
       /\ processed_movies \subseteq processed_movies'
       /\ \A k \in processed_movies' \ processed_movies :
            /\ k = C27_KeyOf(last_event'.name)
            /\ \/ last_event'.outcome = "acquired" /\ calls' = calls + 1
               \/ /\ last_event'.outcome = "has trailers"
                  /\ last_event'.name \in with_trailers
       /\ (/\ events' = events + 1
           /\ ParseFolderName(last_event'.name).ok
           /\ C27_KeyOf(last_event'.name) \in processed_movies)
            => calls' = calls /\ processed_movies' = processed_movies]_vars

\* after an acquisition for one name of a movie succeeded, an event for its
\* other name was dropped as a duplicate
C27_Witness ==
  /\ prog = "monitor"
  /\ calls = 1
  /\ last_event.outcome = "duplicate"
  /\ last_event.name = Watched.up_rip
  /\ Watched.up_rip \notin with_trailers
  /\ Watched.up \in with_trailers
  /\ Cardinality(processed_movies) = 1

\* what the sweep has to do with one entry, whatever the other entries are
C29_Swept(e) ==
  IF C21_Dated(e) /\ DaysSinceRelease(ParseDate(e.release_date)) > days_old
  THEN RemovedEntry
  ELSE e

\* the directories of the staging path
C29_Dirs == {n \in 1..Len(staged) : staged[n].is_dir}

\* the library folders that are there and carry a year
C29_MovieFolders ==
  {name \in LibraryNames :
     disk[LibraryKey(name)].dir /\ C24_YearPositions(name) # {}}

C31_Claim ==
  [][ (InUpcoming /\ pc = "examine" /\ i <= Len(upcoming_movies)
        /\ outcome'[i] = "skipped")
      => disk[TargetOf(i)].media # {}
    ]_vars


\* the tracker answers, holds the movie with a file, and its path is on disk
C32_TrackerHolds(m) ==
  LET r == Catalog[m].radarr IN
  radarr_ok /\ r.known /\ r.hasFile /\ r.path # <<>> /\ disk[RadarrKey(r.path)].dir

C32_Routed(m) ==
  IF C32_TrackerHolds(m) THEN RadarrKey(Catalog[m].radarr.path) ELSE StagingKey(m)

\* C32 -- whatever download_upcoming_trailers changes on disk for a candidate
\* lies under the tracker's folder exactly when the tracker holds the movie
\* with a file at a path that exists, and under '<staging>/<Title> (<Year>)'
\* otherwise; movie_info.json is only ever written under the staging area.
C32_TargetRouting ==
  [][ InUpcoming
      => \A k \in DirKeys :
           disk'[k] # disk[k]
             => /\ i \in Candidates
                /\ k = C32_Routed(upcoming_movies[i])
                /\ disk'[k].info # disk[k].info => k[1] = "staging"
    ]_vars

\* one run put a trailer into the tracker's folder and recorded a staged
\* movie, while the movie whose tracker path is gone was staged
C32_Witness ==
  /\ InUpcoming /\ radarr_ok
  /\ disk[RadarrKey(RadarrFolder)].media # {}
  /\ disk[RadarrKey(RadarrFolder)].info = NoInfo
  /\ \E n \in Candidates :
       /\ upcoming_movies[n] = "m2"
       /\ outcome[n] = "processed"
       /\ disk[StagingKey("m2")].info # NoInfo


C33_Letter(c, t) ==
  \/ c = t
  \/ << c, t >> \in { <<"I", "i">>, <<"S", "s">>, <<"E", "e">>, <<"Q", "q">>,
                      <<"U", "u">>, <<"L", "l">>, <<"P", "p">>, <<"A", "a">>,
                      <<"R", "r">>, <<"T", "t">> }

\* the token stands in the title at some position, in either case
C33_Occurs(title, token) ==
  \E k \in 1..Len(title) :
    /\ k + Len(token) - 1 <= Len(title)
    /\ \A n \in 1..Len(token) : C33_Letter(title[k + n - 1], token[n])

C33_Tokens ==
  { <<"2">>, <<"i", "i">>, <<"s", "e", "q", "u", "e", "l">>,
    <<"p", "a", "r", "t">>, <<":">> }

C33_Title == IF "title" \in DOMAIN film THEN film.title ELSE <<>>

C34_PassOpen ==
  (prog = "filter" /\ verdict.returned)
    => /\ verdict.quality /\ verdict.content /\ verdict.production
       /\ verdict.all <=> /\ film.popularity >= popularity_threshold
                          /\ franchise_only => film.belongs_to_collection
                          /\ ~(original_only
                                /\ \E t \in C33_Tokens : C33_Occurs(C33_Title, t))

\* a movie is accepted with every one of these filters configured
C34_Witness ==
  /\ prog = "filter" /\ verdict.returned
  /\ filter_config = FilterNames
  /\ verdict.all


\* the folder name built from a title and a year parses back to them
C35_RoundTrip(title, year) ==
  LET parsed == ParseFolderName(FolderName(title, year)) IN
  /\ parsed.ok
  /\ parsed.title = title
  /\ parsed.year = ToInt(year)

\* C35 -- (as claimed) every movie folder that acquisition laid out on disk
\* has a name the folder-name parser reads back as the title and the year
\* it was built from.
C35_Claim ==
  /\ InUpcoming
       => \A m \in MovieKeys :
            disk[StagingKey(m)].dir
              => C35_RoundTrip(Catalog[m].title, YearOf(Catalog[m].release_date))
  /\ InLibrary
       => \A q \in SearchKeys :
            disk[LibraryKey(MovieDirName(SearchCatalog[q]))].dir
              => C35_RoundTrip(SanitizeFilename(SearchCatalog[q].title),
                               YearOf(SearchCatalog[q].release_date))


C36_Failed == {"failed", "raised"}

C37_SweeperScope ==
  [][ prog = "sweep"
      => /\ disk' = disk
         /\ staging' = staging
         /\ Len(staged') = Len(staged)
         /\ \A n \in 1..Len(staged) :
              staged'[n] # staged[n]
                => /\ staged[n].is_dir
                   /\ staged[n].info_file = "record"
                   /\ staged'[n] = RemovedEntry
    ]_vars

\* a sweep removed a recorded directory and left a file and a directory
\* without a record in place
C37_Witness ==
  /\ prog = "sweep" /\ pc = "swept"
  /\ cleanup_count = 1
  /\ \E a, b, c \in 1..Len(staged) :
       /\ staged[a] = RemovedEntry
       /\ staged[b].exists /\ ~staged[b].is_dir
       /\ staged[c].exists /\ staged[c].is_dir /\ staged[c].info_file = "none"


\* C38 -- (as claimed) a share that was mounted when run_scan_existing or
\* run_download_movie was called is mounted when the call has returned.
C38_Claim ==
  (prog = "network" /\ net_run.returned /\ net_run.was_mounted) => mounted


\* C39 -- start_scheduler runs a scan at once; in its loop a scan runs only
\* when the interval has passed and the next one is scheduled a whole
\* interval on; and as long as the user does not stop it, whatever the
\* latest scan did (returned True or False, or raised) another scan follows.
C39_SchedulerLiveness ==
  /\ [][ prog = "scheduler"
          => /\ scheduler.at = "constructed"
                  => scheduler'.scans = 1 /\ scheduler'.at = "loop"
             /\ (scheduler.at = "loop" /\ scheduler'.scans # scheduler.scans)
                  => /\ scheduler.until_due = 0
                     /\ scheduler'.until_due = scheduler.interval
                     /\ scheduler'.at = "loop"
        ]_vars
  /\ (prog = "scheduler" /\ scheduler.at = "constructed")
       ~> (scheduler.scans = 1)
  /\ \A n \in 0..MaxScans, r \in ScanOutcomes :
       (scheduler.at = "loop" /\ scheduler.scans = n /\ scheduler.last = r)
         ~> \/ scheduler.scans = (n + 1) % (MaxScans + 1)
            \/ scheduler.at = "stopped"

\* a scheduled scan succeeded after the scan before it had raised
C39_Witness ==
  /\ prog = "scheduler"
  /\ scheduler.at = "loop"
  /\ scheduler.scans = 3
  /\ scheduler.after_failure
  /\ scheduler.last = "true"
  /\ scheduler.last_scan

====
